---- MODULE Spec2Model ----
(***************************************************************************)
(* win-hotkey: the single-threaded hotkey manager (src/single_thread.rs),  *)
(* the platform hot-key facility it drives (RegisterHotKey,                *)
(* UnregisterHotKey, GetMessageW, PostMessageW, GetAsyncKeyState) and the  *)
(* cross-thread proxy (src/thread_safe.rs).                                *)
(***************************************************************************)
EXTENDS Integers, Sequences, FiniteSets, TLC

(***************************************************************************)
(* Bounds of the model.                                                    *)
(***************************************************************************)
\* number of register calls explored on one manager (the u16 counter stays
\* far below its width)
MaxRegs == 2
\* capacity of the window's message queue explored
MaxQueue == 2

\* threads of each kind a GlobalHotkeyManager spawns
MaxSpawns == 2

\* messages waiting in the queue of the window of a GlobalHotkeyManager
MaxPending == 1
MaxWinCalls == 2

\* threads of win_hotkey_proc that wait for the key to be released
MaxHeld == 2

(***************************************************************************)
(* Option<T>: None is the empty sequence, Some(x) the one-element one.     *)
(***************************************************************************)
None == << >>
Some(x) == << x >>

(***************************************************************************)
(* keys/vk.rs and keys/modifiers.rs                                        *)
(***************************************************************************)
ToVkCode(vk) ==
    CASE vk = "Shift" -> 16
      [] vk = "Control" -> 17
      [] vk = "A" -> 65
      [] vk = "B" -> 66

ToModCode(m) ==
    CASE m = "Alt" -> 1
      [] m = "Ctrl" -> 2
      [] m = "Shift" -> 4
      [] m = "Win" -> 8
      [] m = "NoRepeat" -> 16384
      [] m = "Non" -> 0

RECURSIVE BitOr(_, _)
BitOr(a, b) ==
    IF a = 0 THEN b
    ELSE IF b = 0 THEN a
    ELSE (IF a % 2 = 1 \/ b % 2 = 1 THEN 1 ELSE 0) + 2 * BitOr(a \div 2, b \div 2)

RECURSIVE FoldOr(_, _)
FoldOr(acc, keys) ==
    IF keys = << >> THEN acc
    ELSE FoldOr(BitOr(acc, ToModCode(Head(keys))), Tail(keys))

\* ModifiersKey::combine
Combine(keys) ==
    IF keys # None THEN FoldOr(0, keys[1]) ELSE ToModCode("Non")

(***************************************************************************)
(* State.                                                                  *)
(***************************************************************************)
VARIABLES
    hwnd,        \* HotkeyManager.hwnd: the hidden window
    id,          \* HotkeyManager.id: the next id
    handlers,    \* HotkeyManager.handlers: id -> HotkeyCallback
    no_repeat,   \* HotkeyManager.no_repeat
    hotkeys,     \* platform: hot keys registered for the window, id -> chord
    queue,       \* platform: posted messages of the window, oldest first
    pc,          \* position of the thread that runs the manager
    handle_out,  \* an InterruptHandle of the manager is held by another thread
    last,        \* the call that completed in the latest step, with its result
    issued,      \* history: the register calls so far, (id, accepted)
    unregistered, \* history: ids whose unregister returned Ok
    after_ua,    \* history: the result of an unregister_all that was called
                 \* with a wakeup pending, while it is the latest call on the
                 \* manager and through an event_loop called next ("no"
                 \* otherwise)
    mode,        \* "single": the manager is used on its own thread;
                 \* "proxy": it is run by the worker of thread_safe::HotkeyManager
    ts_no_repeat, \* thread_safe::HotkeyManager.no_repeat
    requests,    \* the channel to the worker: HotkeyMessages, oldest first
    waiting,     \* caller -> the call it is blocked in ("no" when in none)
    replies,     \* caller -> what the worker sent on its reply channel
    serving,     \* the blocking request the worker is executing
    ref,         \* history: a single-threaded manager that is given the calls
                 \* the proxy's callers make, as they wrote them, in the order
                 \* the worker serves them and with the platform's answers
    facade,      \* global::GlobalHotkeyManager: its fields and their locks
    fthreads,    \* the threads of the facade: thread -> position and locals
    HOTKEYS,     \* manager.rs: the process-wide table HOTKEYS, id -> name
    winthreads   \* manager.rs: the call of WinHotKeyManager that is under
                 \* way, and the threads win_hotkey_proc has spawned

fvars == << facade, fthreads >>
tsvars == << mode, ts_no_repeat, requests, waiting, replies, serving, ref,
             facade, fthreads, HOTKEYS, winthreads >>
vars == << hwnd, id, handlers, no_repeat, hotkeys, queue, pc, handle_out, last,
           issued, unregistered, after_ua, mode, ts_no_repeat, requests, waiting,
           replies, serving, ref, facade, fthreads, HOTKEYS, winthreads >>

\* a function with one more / one fewer argument
Insert(f, k, v) == [x \in DOMAIN f \cup {k} |-> IF x = k THEN v ELSE f[x]]
Remove(f, k) == [x \in DOMAIN f \ {k} |-> f[x]]
EmptyMap == [x \in {} |-> 0]

\* the record kept in last
Call(op, i, res) ==
    [op |-> op, id |-> i, res |-> res, args |-> << >>, called |-> None,
     ret |-> None, attempted |-> << >>]

\* last after a step that completes no call
Quiet == Call("none", 0, "")

(***************************************************************************)
(* The platform hot-key facility, as the manager calls it.                 *)
(***************************************************************************)
\* the chord of a registration: MOD_NOREPEAT changes the behaviour of the
\* hot key, not the key combination it claims
ChordOf(modifiers, vk_code) == << modifiers % ToModCode("NoRepeat"), vk_code >>

\* RegisterHotKey(hwnd, id, fsModifiers, vk): nonzero (TRUE) on success.
\* free is the platform's answer for a chord no hot key of this window
\* holds (FALSE when another application holds it).
RegisterHotKey(table, modifiers, vk_code, free) ==
    /\ free
    /\ \A j \in DOMAIN table : ChordOf(table[j].modifiers, table[j].vk) # ChordOf(modifiers, vk_code)

\* UnregisterHotKey(hwnd, id): nonzero (TRUE) on success. granted is the
\* platform's answer for an id that is registered for the window.
UnregisterHotKey(table, i, granted) == granted /\ i \in DOMAIN table

\* GetAsyncKeyState(vk): a 16-bit value whose most significant bit is set
\* while the key is down
GetAsyncKeyState(down, vk_code) ==
    IF \E k \in down : ToVkCode(k) = vk_code THEN -32768 ELSE 0

\* key_state as u32 >> 31: the cast of the i16 extends its sign to 32 bits,
\* so bit 31 of the result is the sign of key_state
AsU32Shr31(key_state) == IF key_state < 0 THEN 1 ELSE 0

\* get_global_keystate: key_state as u32 >> 31 == 1
GetGlobalKeystate(down, vk) ==
    AsU32Shr31(GetAsyncKeyState(down, ToVkCode(vk))) = 1

\* a posted message
Msg(message, wParam) == [message |-> message, wParam |-> wParam]

(***************************************************************************)
(* single_thread::HotkeyManager. Each method is an action on the state of  *)
(* the manager and the platform; the thread that calls it is added below.  *)
(***************************************************************************)
\* HotkeyManager::new(), the window created
NewManager ==
    /\ hwnd = "window"
    /\ id = 0
    /\ handlers = EmptyMap
    /\ hotkeys = EmptyMap
    /\ queue = << >>
    /\ pc = "idle"
    /\ handle_out = FALSE
    /\ last = Call("new", 0, "Ok")
    /\ issued = << >>
    /\ unregistered = {}
    /\ after_ua = "no"

\* create_hidden_window(): Ok(DropHWND(hwnd)), or Err(()) when
\* CreateWindowExA returns null
CreateHiddenWindow(created) == IF created THEN Some("window") ELSE None

\* HotkeyManager::new() when CreateWindowExA succeeds or fails:
\* create_hidden_window().unwrap_or(DropHWND(null))
NewManagerOn(created) ==
    /\ hwnd = (IF CreateHiddenWindow(created) # None THEN CreateHiddenWindow(created)[1]
               ELSE "null")
    /\ id = 0
    /\ handlers = EmptyMap
    /\ hotkeys = EmptyMap
    /\ queue = << >>
    /\ pc = "idle"
    /\ handle_out = FALSE
    /\ last = [Call("new", 0, "Ok") EXCEPT !.args = << created >>]
    /\ issued = << >>
    /\ unregistered = {}
    /\ after_ua = "no"

\* set_no_repeat(no_repeat)
SetNoRepeat(b) ==
    /\ pc = "idle"
    /\ no_repeat' = b
    /\ last' = [Call("set_no_repeat", 0, "Ok") EXCEPT !.args = << b >>]
    /\ UNCHANGED << hwnd, id, handlers, hotkeys, queue, pc, handle_out, issued,
                    unregistered, after_ua >>

\* modifier bits that carry the no-repeat bit whatever the flag says
RegisterModifiersAlways(modifiers_key, norepeat) ==
    BitOr(Combine(modifiers_key), ToModCode("NoRepeat"))

\* the modifier bits register_extrakeys passes to the platform
RegisterModifiers(modifiers_key, norepeat) ==
    IF norepeat THEN BitOr(Combine(modifiers_key), ToModCode("NoRepeat"))
    ELSE Combine(modifiers_key)

\* the number of values of the u16 counter self.id
U16 == 65536

\* a counter that a rejected registration does not advance
IdAfterOnSuccess(cur, reg_ok) == IF reg_ok THEN cur + 1 ELSE cur

\* the counter after a register call: self.id += 1 runs before the
\* platform is asked, whatever it answers; on a u16, in a build without
\* overflow checks
IdAfter(cur, reg_ok) == (cur + 1) % U16

\* a registry that takes the entry whatever the platform answered
HandlersAfterAlways(h, register_id, callback, extra_keys, reg_ok) ==
    Insert(h, register_id, [callback |-> callback, extra_keys |-> extra_keys])

\* a registry that forgets the extra keys of the entry
HandlersAfterNoExtra(h, register_id, callback, extra_keys, reg_ok) ==
    IF ~ reg_ok
    THEN h
    ELSE Insert(h, register_id, [callback |-> callback, extra_keys |-> None])

\* the registry after a register call: the entry is inserted only when the
\* platform accepted the hot key
HandlersAfter(h, register_id, callback, extra_keys, reg_ok) ==
    IF ~ reg_ok
    THEN h
    ELSE Insert(h, register_id, [callback |-> callback, extra_keys |-> extra_keys])

\* what register_extrakeys does to a manager m = (id, handlers, no_repeat)
\* and to the platform's table, and what it returns
RegisterOn(m, table, virtual_key, modifiers_key, extra_keys, callback, free) ==
    LET register_id == m.id
        modifiers == RegisterModifiers(modifiers_key, m.no_repeat)
        reg_ok == RegisterHotKey(table, modifiers, ToVkCode(virtual_key), free)
    IN  [id |-> IdAfter(m.id, reg_ok),
         hotkeys |-> IF reg_ok
                     THEN Insert(table, register_id,
                              [modifiers |-> modifiers, vk |-> ToVkCode(virtual_key)])
                     ELSE table,
         handlers |-> HandlersAfter(m.handlers, register_id, callback, extra_keys, reg_ok),
         register_id |-> register_id,
         reg_ok |-> reg_ok,
         res |-> IF reg_ok THEN "Ok" ELSE "RegistrationFailed"]

\* register_extrakeys(virtual_key, modifiers_key, extra_keys, callback)
RegisterExtrakeys(virtual_key, modifiers_key, extra_keys, callback, free) ==
    LET r == RegisterOn([id |-> id, handlers |-> handlers, no_repeat |-> no_repeat],
                        hotkeys, virtual_key, modifiers_key, extra_keys, callback, free)
    IN  /\ pc = "idle"
        /\ id < MaxRegs
        /\ id' = r.id
        /\ hotkeys' = r.hotkeys
        /\ handlers' = r.handlers
        /\ last' = [Call("register", r.register_id, r.res) EXCEPT
                      !.args = << virtual_key, modifiers_key, extra_keys, callback >>]
        /\ issued' = Append(issued, [id |-> r.register_id, ok |-> r.reg_ok])
        /\ after_ua' = "no"
        /\ UNCHANGED << hwnd, no_repeat, queue, pc, handle_out, unregistered >>

\* register_extrakeys at any value of the counter. self.id += 1 overflows
\* when the counter is U16 - 1: a build with overflow checks panics there,
\* before the platform is asked; a build without them wraps to 0.
RegisterAtWidth(virtual_key, modifiers_key, extra_keys, callback, free, overflow_checks) ==
    LET r == RegisterOn([id |-> id, handlers |-> handlers, no_repeat |-> no_repeat],
                        hotkeys, virtual_key, modifiers_key, extra_keys, callback, free)
    IN  /\ pc = "idle"
        /\ IF overflow_checks /\ id + 1 = U16
           THEN /\ pc' = "panicked"
                /\ last' = [Call("register", id, "panic") EXCEPT
                              !.args = << virtual_key, modifiers_key, extra_keys, callback >>]
                /\ UNCHANGED << id, hotkeys, handlers, issued, after_ua >>
           ELSE /\ id' = r.id
                /\ hotkeys' = r.hotkeys
                /\ handlers' = r.handlers
                /\ last' = [Call("register", r.register_id, r.res) EXCEPT
                              !.args = << virtual_key, modifiers_key, extra_keys, callback >>]
                /\ issued' = Append(issued, [id |-> r.register_id, ok |-> r.reg_ok])
                /\ after_ua' = "no"
                /\ pc' = pc
        /\ UNCHANGED << hwnd, no_repeat, queue, handle_out, unregistered >>

\* register(virtual_key, modifiers_key, callback)
Register(virtual_key, modifiers_key, callback, free) ==
    RegisterExtrakeys(virtual_key, modifiers_key, None, callback, free)

\* an unregister that drops the entry although the platform refused
UnregisterOneEager(h, table, i, granted) ==
    IF UnregisterHotKey(table, i, granted)
    THEN [handlers |-> IF i \in DOMAIN h THEN Remove(h, i) ELSE h,
          hotkeys |-> Remove(table, i), res |-> "Ok"]
    ELSE [handlers |-> IF i \in DOMAIN h THEN Remove(h, i) ELSE h,
          hotkeys |-> table, res |-> "UnregistrationFailed"]

\* an unregister that reports success and keeps the entry
UnregisterOneKeepsHandler(h, table, i, granted) ==
    IF UnregisterHotKey(table, i, granted)
    THEN [handlers |-> h, hotkeys |-> Remove(table, i), res |-> "Ok"]
    ELSE [handlers |-> h, hotkeys |-> table, res |-> "UnregistrationFailed"]

\* the effect of one unregister on (handlers, hotkeys): the new pair and
\* the result
UnregisterOne(h, table, i, granted) ==
    IF UnregisterHotKey(table, i, granted)
    THEN [handlers |-> IF i \in DOMAIN h THEN Remove(h, i) ELSE h,
          hotkeys |-> Remove(table, i), res |-> "Ok"]
    ELSE [handlers |-> h, hotkeys |-> table, res |-> "UnregistrationFailed"]

\* unregister(id)
Unregister(i, granted) ==
    LET r == UnregisterOne(handlers, hotkeys, i, granted)
    IN  /\ pc = "idle"
        /\ handlers' = r.handlers
        /\ hotkeys' = r.hotkeys
        /\ last' = Call("unregister", i, r.res)
        /\ unregistered' = IF r.res = "Ok" THEN unregistered \cup {i} ELSE unregistered
        /\ after_ua' = "no"
        /\ UNCHANGED << hwnd, id, no_repeat, queue, pc, handle_out, issued >>

\* a loop that goes on to the remaining ids after a failure
RECURSIVE UnregisterFromKeepGoing(_, _, _, _, _)
UnregisterFromKeepGoing(ids, h, table, refused, done) ==
    IF ids = << >>
    THEN [handlers |-> h, hotkeys |-> table,
          res |-> IF \E n \in 1..Len(done) : done[n] \in refused
                  THEN "UnregistrationFailed" ELSE "Ok",
          attempted |-> done]
    ELSE LET r == UnregisterOne(h, table, Head(ids), Head(ids) \notin refused)
         IN  UnregisterFromKeepGoing(Tail(ids), r.handlers, r.hotkeys, refused,
                                     Append(done, Head(ids)))

\* a loop that stops at the first failure and reports success
RECURSIVE UnregisterFromSwallow(_, _, _, _, _)
UnregisterFromSwallow(ids, h, table, refused, done) ==
    IF ids = << >>
    THEN [handlers |-> h, hotkeys |-> table, res |-> "Ok", attempted |-> done]
    ELSE LET r == UnregisterOne(h, table, Head(ids), Head(ids) \notin refused)
         IN  IF r.res # "Ok"
             THEN [handlers |-> r.handlers, hotkeys |-> r.hotkeys, res |-> "Ok",
                   attempted |-> Append(done, Head(ids))]
             ELSE UnregisterFromSwallow(Tail(ids), r.handlers, r.hotkeys, refused,
                                        Append(done, Head(ids)))

\* the loop of unregister_all over ids, in the order the map yields them;
\* refused is the set of ids whose unregistration the platform refuses
RECURSIVE UnregisterFrom(_, _, _, _, _)
UnregisterFrom(ids, h, table, refused, done) ==
    IF ids = << >>
    THEN [handlers |-> h, hotkeys |-> table, res |-> "Ok", attempted |-> done]
    ELSE LET r == UnregisterOne(h, table, Head(ids), Head(ids) \notin refused)
         IN  IF r.res # "Ok"
             THEN [handlers |-> r.handlers, hotkeys |-> r.hotkeys, res |-> r.res,
                   attempted |-> Append(done, Head(ids))]
             ELSE UnregisterFrom(Tail(ids), r.handlers, r.hotkeys, refused,
                                 Append(done, Head(ids)))

\* the orders in which a map can yield its keys
Orders(S) ==
    {s \in [1..Cardinality(S) -> S] : \A a, b \in 1..Cardinality(S) : a # b => s[a] # s[b]}

\* unregister_all()
UnregisterAll(ids, refused) ==
    LET r == UnregisterFrom(ids, handlers, hotkeys, refused, << >>)
        ok == {r.attempted[k] : k \in {n \in 1..Len(r.attempted) :
                                      r.res = "Ok" \/ n < Len(r.attempted)}}
    IN  /\ pc = "idle"
        /\ ids \in Orders(DOMAIN handlers)
        /\ handlers' = r.handlers
        /\ hotkeys' = r.hotkeys
        /\ last' = [Call("unregister_all", 0, r.res) EXCEPT !.attempted = r.attempted]
        /\ unregistered' = unregistered \cup ok
        /\ after_ua' = IF \E n \in 1..Len(queue) : queue[n].message = "WM_NULL"
                       THEN r.res ELSE "no"
        /\ UNCHANGED << hwnd, id, no_repeat, queue, pc, handle_out, issued >>

\* a window handle that is forgotten without DestroyWindow
DropHWNDLeaks(w) == w

\* DestroyWindow, unless the handle is null
DropHWND(w) == IF w # "null" THEN "destroyed" ELSE w

\* a teardown that destroys the window and leaves the hot keys registered
DropWithoutUnregister(ids, refused) ==
    /\ pc \in {"idle", "exiting"}
    /\ ids \in Orders(DOMAIN handlers)
    /\ hwnd' = DropHWND(hwnd)
    /\ pc' = "dropped"
    /\ last' = Call("drop", 0, "Ok")
    /\ after_ua' = "no"
    /\ UNCHANGED << id, handlers, hotkeys, no_repeat, queue, handle_out, issued, unregistered >>

\* the manager is dropped: Drop for HotkeyManager calls unregister_all and
\* ignores its result, then Drop for DropHWND destroys the window
Drop(ids, refused) ==
    LET r == UnregisterFrom(ids, handlers, hotkeys, refused, << >>)
        ok == {r.attempted[k] : k \in {n \in 1..Len(r.attempted) :
                                      r.res = "Ok" \/ n < Len(r.attempted)}}
    IN  /\ pc \in {"idle", "exiting"}
        /\ ids \in Orders(DOMAIN handlers)
        /\ handlers' = r.handlers
        /\ hotkeys' = r.hotkeys
        /\ hwnd' = DropHWND(hwnd)
        /\ pc' = "dropped"
        /\ last' = [Call("drop", 0, r.res) EXCEPT !.attempted = r.attempted]
        /\ unregistered' = unregistered \cup ok
        /\ after_ua' = "no"
        /\ UNCHANGED << id, no_repeat, queue, handle_out, issued >>

\* the value a callback returns when it is called
Invoke(cb) == << "value of", cb >>

\* what one iteration of the loop of handle_hotkey does with the message
\* GetMessageW hands it: whether handle_hotkey returns, the value it
\* returns and the callback it called
Continue == [returns |-> FALSE, value |-> None, called |-> None]

\* a return that loses the value of the callback
ReturnNothing(v, cb) == [returns |-> TRUE, value |-> None, called |-> cb]

Return(v, cb) == [returns |-> TRUE, value |-> v, called |-> cb]

\* a gate that one held extra key opens
AnyPressed(down, keys) ==
    \E n \in 1..Len(keys) : GetGlobalKeystate(down, keys[n])

\* the gate of the extra keys: none of them is found not pressed
AllPressed(down, keys) ==
    ~ \E n \in 1..Len(keys) : ~ GetGlobalKeystate(down, keys[n])

HandleMessage(msg, h, down) ==
    LET ok == msg.message # "WM_QUIT"
        hk_id == msg.wParam % 65536
    IN  IF ok
        THEN IF msg.message = "WM_HOTKEY"
             THEN IF hk_id \in DOMAIN h
                  THEN LET handler == h[hk_id]
                       IN  IF handler.extra_keys # None
                           THEN LET keys == handler.extra_keys[1]
                                IN  IF AllPressed(down, keys)
                                    THEN IF handler.callback # None
                                         THEN Return(Some(Invoke(handler.callback[1])), handler.callback)
                                         ELSE Continue
                                    ELSE Continue
                           ELSE IF handler.callback # None
                                THEN Return(Some(Invoke(handler.callback[1])), handler.callback)
                                ELSE Continue
                  ELSE Continue
             ELSE IF msg.message = "WM_NULL"
                  THEN Return(None, None)
                  ELSE Continue
        ELSE Continue

\* handle_hotkey() is called: the thread enters the loop
HandleHotkey ==
    /\ pc = "idle"
    /\ pc' = "handle_hotkey"
    /\ last' = Quiet
    /\ after_ua' = "no"
    /\ UNCHANGED << hwnd, id, handlers, no_repeat, hotkeys, queue,
                    handle_out, issued, unregistered >>

\* event_loop() is called: the thread enters its first handle_hotkey
EventLoop ==
    /\ pc = "idle"
    /\ pc' = "event_loop"
    /\ last' = Quiet
    /\ after_ua' = after_ua
    /\ UNCHANGED << hwnd, id, handlers, no_repeat, hotkeys, queue,
                    handle_out, issued, unregistered >>

\* a retrieval that takes the oldest message and loses the one behind it
GetMessageWSkips(q) ==
    [msg |-> Head(q), rest |-> IF Len(q) > 1 THEN Tail(Tail(q)) ELSE Tail(q)]

\* GetMessageW on a queue that holds a message: the oldest message is
\* handed over and removed, the others stay in their order
GetMessageW(q) == [msg |-> Head(q), rest |-> Tail(q)]

\* one iteration of the loop of handle_hotkey: GetMessageW blocks until
\* the queue holds a message and takes the oldest; down is the set of keys
\* GetAsyncKeyState reports as held at that moment. event_loop calls
\* handle_hotkey again while it returns Some.
PollMessage(down) ==
    /\ pc \in {"handle_hotkey", "event_loop"}
    /\ queue # << >>
    /\ LET got == GetMessageW(queue)
           msg == got.msg
           r == HandleMessage(msg, handlers, down)
           leaves == IF pc = "handle_hotkey" THEN r.returns
                     ELSE r.returns /\ r.value = None
       IN  /\ queue' = got.rest
           /\ pc' = IF leaves THEN "idle" ELSE pc
           /\ last' = [Call("poll", msg.wParam,
                            IF ~ r.returns THEN "Continue"
                            ELSE IF r.value = None THEN "None" ELSE "Some")
                       EXCEPT !.args = << msg, down >>, !.called = r.called,
                              !.ret = r.value]
           /\ after_ua' = IF leaves THEN "no" ELSE after_ua
    /\ UNCHANGED << hwnd, id, handlers, no_repeat, hotkeys, handle_out,
                    issued, unregistered >>

\* a post that never reaches the queue
PostMessageLost(q, message, wParam) == q

\* PostMessageW(hwnd, message, wParam, 0): the message joins the queue of
\* the thread that created the window
PostMessageW(q, message, wParam) == Append(q, Msg(message, wParam))

\* a post that reaches the queue whatever has become of the window
PostToAny(w, q, message, wParam) == PostMessageW(q, message, wParam)

\* PostMessageW on the handle w, called on a thread other than the
\* manager's, seen from the queue q of the manager's thread: the message
\* joins q when w is a window; for a destroyed window the call fails; for a
\* null handle the message goes to the queue of the calling thread
PostTo(w, q, message, wParam) ==
    IF w = "window" THEN PostMessageW(q, message, wParam) ELSE q

\* InterruptHandle::interrupt(), on the thread that holds the handle:
\* PostMessageW(hwnd, WM_NULL, 0, 0)
Interrupt ==
    /\ handle_out
    /\ hwnd = "window" => Len(queue) < MaxQueue
    /\ queue' = PostTo(hwnd, queue, "WM_NULL", 0)
    /\ last' = Call("interrupt", 0, pc)
    /\ UNCHANGED << hwnd, id, handlers, no_repeat, hotkeys, pc,
                    handle_out, issued, unregistered, after_ua >>
    /\ UNCHANGED tsvars

(***************************************************************************)
(* The environment: the user at the keyboard and other senders.            *)
(***************************************************************************)
\* the chord of a registered hot key is pressed: the platform posts
\* WM_HOTKEY with the id as wParam
Fire(i) ==
    /\ i \in DOMAIN hotkeys
    /\ Len(queue) < MaxQueue
    /\ queue' = Append(queue, Msg("WM_HOTKEY", i))
    /\ last' = Quiet
    /\ UNCHANGED << hwnd, id, handlers, no_repeat, hotkeys, pc,
                    handle_out, issued, unregistered, after_ua >>
    /\ UNCHANGED tsvars

\* another message in the range GetMessageW filters for arrives
PostOther(m) ==
    /\ Len(queue) < MaxQueue
    /\ queue' = Append(queue, Msg(m, 0))
    /\ last' = Quiet
    /\ UNCHANGED << hwnd, id, handlers, no_repeat, hotkeys, pc,
                    handle_out, issued, unregistered, after_ua >>
    /\ UNCHANGED tsvars

\* the other messages GetMessageW can hand the loop: WM_QUIT, for which it
\* returns 0, and a message between WM_NULL and WM_HOTKEY the loop has no
\* branch for
OtherMessages == {"WM_QUIT", "WM_KEYDOWN"}

\* the sets of keys that can be held
KeyStates == {{}, {"Shift"}, {"Shift", "Control"}}

\* the (virtual_key, modifiers_key, extra_keys, callback) arguments of the
\* register_extrakeys calls: one chord twice (its modifiers in either order,
\* with and without callback and extra keys) and a chord without modifiers
HotkeyChoices ==
    { << "A", Some(<< "Ctrl", "Alt" >>), None, Some("cb1") >>,
      << "A", Some(<< "Alt", "Ctrl" >>), Some(<< "Shift", "Control" >>), None >>,
      << "B", None, Some(<< "Shift", "Control" >>), Some("cb2") >> }

\* the reference manager before any call, for the given callers
NewRef(callers) ==
    [id |-> 0, handlers |-> EmptyMap, hotkeys |-> EmptyMap,
     calls |-> [c \in callers |-> None], results |-> [c \in callers |-> None]]

\* no GlobalHotkeyManager has been constructed
NoFacade ==
    /\ facade = None
    /\ fthreads = [t \in {} |-> None]

\* the static HOTKEYS before any WinHotKeyManager call: an empty map; no
\* call is under way and win_hotkey_proc has spawned no thread
NoWinHotKeys ==
    /\ HOTKEYS = EmptyMap
    /\ winthreads = [call |-> None, held |-> << >>]

(***************************************************************************)
(* The manager used on the thread that created it.                         *)
(***************************************************************************)
InitSingle ==
    /\ mode = "single"
    /\ ts_no_repeat = TRUE
    /\ requests = << >>
    /\ waiting = [c \in {} |-> "no"]
    /\ replies = [c \in {} |-> None]
    /\ serving = None
    /\ ref = NewRef({})
    /\ NoFacade
    /\ NoWinHotKeys

Init == NewManager /\ no_repeat = TRUE /\ InitSingle

\* interrupt_handle(): the handle is given to another thread
GetInterruptHandle ==
    /\ mode = "single"
    /\ pc = "idle"
    /\ ~ handle_out
    /\ handle_out' = TRUE
    /\ last' = Quiet
    /\ UNCHANGED << hwnd, id, handlers, no_repeat, hotkeys, queue, pc,
                    issued, unregistered, after_ua >>
    /\ UNCHANGED tsvars

OwnerRegisterExtrakeys ==
    /\ mode = "single"
    /\ \E h \in HotkeyChoices, free \in BOOLEAN :
          RegisterExtrakeys(h[1], h[2], h[3], h[4], free)
    /\ UNCHANGED tsvars

OwnerRegister ==
    /\ mode = "single"
    /\ \E h \in {x \in HotkeyChoices : x[3] = None}, free \in BOOLEAN :
          Register(h[1], h[2], h[4], free)
    /\ UNCHANGED tsvars

OwnerUnregister ==
    /\ mode = "single"
    /\ \E i \in 0..(MaxRegs - 1), granted \in BOOLEAN : Unregister(i, granted)
    /\ UNCHANGED tsvars

OwnerUnregisterAll ==
    /\ mode = "single"
    /\ \E ids \in Orders(DOMAIN handlers), refused \in SUBSET (DOMAIN handlers) :
          UnregisterAll(ids, refused)
    /\ UNCHANGED tsvars

OwnerHandleHotkey == mode = "single" /\ HandleHotkey /\ UNCHANGED tsvars

OwnerEventLoop == mode = "single" /\ EventLoop /\ UNCHANGED tsvars

OwnerPoll ==
    /\ mode = "single"
    /\ \E down \in KeyStates : PollMessage(down)
    /\ UNCHANGED tsvars

Next ==
    \/ OwnerRegisterExtrakeys
    \/ OwnerRegister
    \/ OwnerUnregister
    \/ OwnerUnregisterAll
    \/ OwnerHandleHotkey
    \/ OwnerEventLoop
    \/ OwnerPoll
    \/ GetInterruptHandle
    \/ Interrupt
    \/ \E i \in DOMAIN hotkeys : Fire(i)
    \/ \E m \in OtherMessages : PostOther(m)

Spec == Init /\ [][Next]_vars

(***************************************************************************)
(* thread_safe::HotkeyManager: the proxy. Its worker thread owns a         *)
(* single_thread::HotkeyManager and executes the HotkeyMessages the        *)
(* callers send; each caller blocks on its reply channel.                  *)
(***************************************************************************)
\* the threads that call the proxy
Callers == {"t1"}

\* thread_safe::HotkeyManager::new(): the worker has created its manager
\* and called set_no_repeat(false) on it
InitProxy ==
    /\ NewManager
    /\ no_repeat = FALSE
    /\ mode = "proxy"
    /\ ts_no_repeat = TRUE
    /\ requests = << >>
    /\ waiting = [c \in Callers |-> "no"]
    /\ replies = [c \in Callers |-> None]
    /\ serving = None
    /\ ref = NewRef(Callers)
    /\ NoFacade
    /\ NoWinHotKeys

\* the same for a proxy shared by the given threads
InitProxyFor(callers) ==
    /\ NewManager
    /\ no_repeat = FALSE
    /\ mode = "proxy"
    /\ ts_no_repeat = TRUE
    /\ requests = << >>
    /\ waiting = [c \in callers |-> "no"]
    /\ replies = [c \in callers |-> None]
    /\ serving = None
    /\ ref = NewRef(callers)
    /\ NoFacade
    /\ NoWinHotKeys

\* a HotkeyMessage with the caller whose reply channel it carries
HotkeyMessage(kind, c, arg) == [kind |-> kind, from |-> c, arg |-> arg]

\* the proxy has been dropped or is being dropped
Dropping == \E x \in DOMAIN waiting : waiting[x] \in {"drop", "gone"}

\* a caller sends a message and blocks in recv() on the reply channel
Send(c, call, msg) ==
    /\ mode = "proxy"
    /\ waiting[c] = "no"
    /\ ~ Dropping
    /\ requests' = Append(requests, msg)
    /\ waiting' = [waiting EXCEPT ![c] = call]
    /\ last' = Quiet
    /\ UNCHANGED << hwnd, id, handlers, no_repeat, hotkeys, queue, pc, handle_out,
                    issued, unregistered, after_ua >>
    /\ UNCHANGED << HOTKEYS, winthreads, mode, ts_no_repeat, replies, serving >>

\* a modifier list sent as the caller gave it
TSModifiersAsGiven(modifiers_key, norepeat) == modifiers_key

\* the modifiers the proxy sends: NoRepeat is pushed when its flag is set
TSModifiers(modifiers_key, norepeat) ==
    IF norepeat
    THEN Some((IF modifiers_key = None THEN << >> ELSE modifiers_key[1]) \o << "NoRepeat" >>)
    ELSE modifiers_key

\* the reference manager notes the call of caller c, as c wrote it, with
\* the no-repeat setting at the time of the call
RefCall(r, c, op, args, norepeat) ==
    [r EXCEPT !.calls[c] = Some([op |-> op, args |-> args, no_repeat |-> norepeat])]

\* thread_safe::HotkeyManager::set_no_repeat, between calls
TSSetNoRepeat(b) ==
    /\ mode = "proxy"
    /\ ~ Dropping
    /\ \A c \in DOMAIN waiting : waiting[c] = "no"
    /\ ts_no_repeat # b
    /\ ts_no_repeat' = b
    /\ last' = Quiet
    /\ UNCHANGED << hwnd, id, handlers, no_repeat, hotkeys, queue, pc, handle_out,
                    issued, unregistered, after_ua >>
    /\ UNCHANGED << HOTKEYS, winthreads, mode, requests, waiting, replies, serving, ref >>

\* the methods of the proxy, up to the blocking recv()
TSRegisterExtrakeys(c, virtual_key, modifiers_key, extra_keys, callback) ==
    /\ Send(c, "register", HotkeyMessage("Register", c,
            << virtual_key, TSModifiers(modifiers_key, ts_no_repeat), extra_keys, callback >>))
    /\ ref' = RefCall(ref, c, "register",
                      << virtual_key, modifiers_key, extra_keys, callback >>, ts_no_repeat)

TSUnregister(c, i) ==
    /\ Send(c, "unregister", HotkeyMessage("Unregister", c, i))
    /\ ref' = RefCall(ref, c, "unregister", << i >>, ts_no_repeat)

TSUnregisterAll(c) ==
    /\ Send(c, "unregister_all", HotkeyMessage("UnregisterAll", c, None))
    /\ ref' = RefCall(ref, c, "unregister_all", << >>, ts_no_repeat)

TSHandleHotkey(c) ==
    /\ Send(c, "handle_hotkey", HotkeyMessage("HandleHotkey", c, None))
    /\ UNCHANGED ref

TSEventLoop(c) ==
    /\ Send(c, "event_loop", HotkeyMessage("EventLoop", c, None))
    /\ UNCHANGED ref

TSInterruptHandle(c) ==
    /\ Send(c, "interrupt_handle", HotkeyMessage("InterruptHandle", c, None))
    /\ UNCHANGED ref

\* recv() on the reply channel returns: the call of the caller returns. The
\* handle interrupt_handle returns is given to another thread.
TSReturn(c) ==
    /\ mode = "proxy"
    /\ waiting[c] \notin {"no", "drop", "gone"}
    /\ replies[c] # None
    /\ waiting' = [waiting EXCEPT ![c] = "no"]
    /\ replies' = [replies EXCEPT ![c] = None]
    /\ handle_out' = (handle_out \/ waiting[c] = "interrupt_handle")
    /\ last' = [Call("returned", 0, waiting[c]) EXCEPT !.ret = replies[c]]
    /\ ref' = [ref EXCEPT !.results[c] = None]
    /\ UNCHANGED << hwnd, id, handlers, no_repeat, hotkeys, queue, pc,
                    issued, unregistered, after_ua >>
    /\ UNCHANGED << HOTKEYS, winthreads, mode, ts_no_repeat, requests, serving >>

\* a worker that takes the next message without finishing the call it is in
ReceivesEarly(kind) ==
    /\ mode = "proxy"
    /\ requests # << >>
    /\ Head(requests).kind = kind
    /\ requests' = Tail(requests)

\* backend_loop: the worker is in recv() and the channel holds a message of
\* the given kind
Receives(kind) ==
    /\ mode = "proxy"
    /\ pc = "idle"
    /\ serving = None
    /\ requests # << >>
    /\ Head(requests).kind = kind
    /\ requests' = Tail(requests)

\* a send that reaches the reply channels of all callers
ReplyToAll(c, value) == replies' = [x \in DOMAIN replies |-> Some(value)]

\* channel.send(return_value)
Reply(c, value) == replies' = [replies EXCEPT ![c] = Some(value)]

\* Result<HotkeyId, HotkeyError> of a register call
RegisterResult(res, register_id) ==
    IF res = "Ok" THEN << "Ok", register_id >> ELSE << res >>

\* the reference manager executes the call it noted for c, the platform
\* answering as it answers the worker
RefRegister(r, c, free) ==
    LET call == r.calls[c][1]
        out == RegisterOn([id |-> r.id, handlers |-> r.handlers,
                           no_repeat |-> call.no_repeat], r.hotkeys,
                          call.args[1], call.args[2], call.args[3], call.args[4], free)
    IN  [id |-> out.id, handlers |-> out.handlers, hotkeys |-> out.hotkeys,
         calls |-> [r.calls EXCEPT ![c] = None],
         results |-> [r.results EXCEPT ![c] = Some(RegisterResult(out.res, out.register_id))]]

RefUnregister(r, c, granted) ==
    LET call == r.calls[c][1]
        out == UnregisterOne(r.handlers, r.hotkeys, call.args[1], granted)
    IN  [id |-> r.id, handlers |-> out.handlers, hotkeys |-> out.hotkeys,
         calls |-> [r.calls EXCEPT ![c] = None],
         results |-> [r.results EXCEPT ![c] = Some(<< out.res >>)]]

RefUnregisterAll(r, c, ids, refused) ==
    LET out == UnregisterFrom(ids, r.handlers, r.hotkeys, refused, << >>)
    IN  [id |-> r.id, handlers |-> out.handlers, hotkeys |-> out.hotkeys,
         calls |-> [r.calls EXCEPT ![c] = None],
         results |-> [r.results EXCEPT ![c] = Some(<< out.res >>)]]

ServeRegister ==
    /\ Receives("Register")
    /\ LET hotkey == Head(requests).arg
       IN  \E free \in BOOLEAN :
              /\ RegisterExtrakeys(hotkey[1], hotkey[2], hotkey[3], hotkey[4], free)
              /\ ref' = RefRegister(ref, Head(requests).from, free)
    /\ Reply(Head(requests).from, RegisterResult(last'.res, last'.id))
    /\ UNCHANGED << HOTKEYS, winthreads, mode, ts_no_repeat, waiting, serving >>

ServeUnregister ==
    /\ Receives("Unregister")
    /\ \E granted \in BOOLEAN :
          /\ Unregister(Head(requests).arg, granted)
          /\ ref' = RefUnregister(ref, Head(requests).from, granted)
    /\ Reply(Head(requests).from, << last'.res >>)
    /\ UNCHANGED << HOTKEYS, winthreads, mode, ts_no_repeat, waiting, serving >>

ServeUnregisterAll ==
    /\ Receives("UnregisterAll")
    /\ \E ids \in Orders(DOMAIN handlers), refused \in SUBSET (DOMAIN handlers) :
          /\ UnregisterAll(ids, refused)
          /\ ref' = RefUnregisterAll(ref, Head(requests).from, ids, refused)
    /\ Reply(Head(requests).from, << last'.res >>)
    /\ UNCHANGED << HOTKEYS, winthreads, mode, ts_no_repeat, waiting, serving >>

\* the worker enters hkm.handle_hotkey(); it replies when that returns
ServeHandleHotkey ==
    /\ Receives("HandleHotkey")
    /\ HandleHotkey
    /\ serving' = Some(Head(requests))
    /\ UNCHANGED << HOTKEYS, winthreads, mode, ts_no_repeat, waiting, replies, ref >>

\* the worker enters hkm.event_loop(); it replies when that returns
ServeEventLoop ==
    /\ Receives("EventLoop")
    /\ EventLoop
    /\ serving' = Some(Head(requests))
    /\ UNCHANGED << HOTKEYS, winthreads, mode, ts_no_repeat, waiting, replies, ref >>

ServeInterruptHandle ==
    /\ Receives("InterruptHandle")
    /\ Reply(Head(requests).from, << "InterruptHandle", hwnd >>)
    /\ last' = Quiet
    /\ UNCHANGED << hwnd, id, handlers, no_repeat, hotkeys, queue, pc, handle_out,
                    issued, unregistered, after_ua >>
    /\ UNCHANGED << HOTKEYS, winthreads, mode, ts_no_repeat, waiting, serving, ref >>

\* the worker, inside handle_hotkey or event_loop, polls one message; when
\* the call returns it sends the reply and goes back to recv()
WorkerPoll ==
    /\ mode = "proxy"
    /\ serving # None
    /\ \E down \in KeyStates : PollMessage(down)
    /\ IF pc' = "idle"
       THEN /\ Reply(serving[1].from, << last'.res, last'.ret >>)
            /\ serving' = None
       ELSE UNCHANGED << replies, serving >>
    /\ UNCHANGED << HOTKEYS, winthreads, mode, ts_no_repeat, requests, waiting, ref >>

\* HotkeyMessage::Exit: the worker replies and returns from backend_loop
ServeExit ==
    /\ Receives("Exit")
    /\ Reply(Head(requests).from, << >>)
    /\ pc' = "exiting"
    /\ last' = Quiet
    /\ UNCHANGED << hwnd, id, handlers, no_repeat, hotkeys, queue, handle_out,
                    issued, unregistered, after_ua >>
    /\ UNCHANGED << HOTKEYS, winthreads, mode, ts_no_repeat, waiting, serving, ref >>

\* the worker's closure ends: its backend, with the manager, is dropped and
\* the thread terminates
WorkerDrop ==
    /\ mode = "proxy"
    /\ pc = "exiting"
    /\ \E ids \in Orders(DOMAIN handlers), refused \in SUBSET (DOMAIN handlers) :
          Drop(ids, refused)
    /\ UNCHANGED << HOTKEYS, winthreads, mode, ts_no_repeat, requests, waiting, replies, serving, ref >>

\* Drop for thread_safe::HotkeyManager, by the thread that owns the proxy
\* while no call is in progress: Exit is sent
TSDrop(c) ==
    /\ \A x \in DOMAIN waiting : waiting[x] = "no"
    /\ Send(c, "drop", HotkeyMessage("Exit", c, None))
    /\ UNCHANGED ref

\* the rest of the drop: the reply to Exit is received and the worker
\* thread is joined
TSDropReturn(c) ==
    /\ mode = "proxy"
    /\ waiting[c] = "drop"
    /\ replies[c] # None
    /\ pc = "dropped"
    /\ waiting' = [waiting EXCEPT ![c] = "gone"]
    /\ replies' = [replies EXCEPT ![c] = None]
    /\ last' = Call("returned", 0, "drop")
    /\ UNCHANGED << hwnd, id, handlers, no_repeat, hotkeys, queue, pc, handle_out,
                    issued, unregistered, after_ua >>
    /\ UNCHANGED << HOTKEYS, winthreads, mode, ts_no_repeat, requests, serving, ref >>

\* a step of the proxy, its callers or its worker while no facade is in use
Proxy(A) == A /\ UNCHANGED fvars

(***************************************************************************)
(* A thread blocked in event_loop and a second thread that interrupts:     *)
(* the single-threaded manager or the proxy, with the scheduling that      *)
(* lets every thread that can take a step take it.                         *)
(***************************************************************************)
LoopInit == Init \/ InitProxy

\* the other messages posted while the loop runs
LoopMessages == {"WM_QUIT"}

LoopNext ==
    \/ OwnerRegisterExtrakeys
    \/ OwnerUnregisterAll
    \/ OwnerHandleHotkey
    \/ OwnerEventLoop
    \/ OwnerPoll
    \/ GetInterruptHandle
    \/ Interrupt
    \/ \E i \in DOMAIN hotkeys : Fire(i)
    \/ \E m \in LoopMessages : PostOther(m)
    \/ \E c \in Callers, h \in HotkeyChoices : Proxy(TSRegisterExtrakeys(c, h[1], h[2], h[3], h[4]))
    \/ \E c \in Callers : Proxy(TSUnregisterAll(c))
    \/ \E c \in Callers : Proxy(TSHandleHotkey(c))
    \/ \E c \in Callers : Proxy(TSEventLoop(c))
    \/ \E c \in Callers : Proxy(TSInterruptHandle(c))
    \/ \E c \in Callers : Proxy(TSReturn(c))
    \/ Proxy(ServeRegister)
    \/ Proxy(ServeUnregisterAll)
    \/ Proxy(ServeHandleHotkey)
    \/ Proxy(ServeEventLoop)
    \/ Proxy(ServeInterruptHandle)
    \/ Proxy(WorkerPoll)

LoopSpec ==
    /\ LoopInit
    /\ [][LoopNext]_vars
    /\ WF_vars(OwnerPoll)
    /\ WF_vars(Proxy(WorkerPoll))
    /\ WF_vars(Proxy(ServeRegister \/ ServeUnregisterAll \/ ServeHandleHotkey
                        \/ ServeEventLoop \/ ServeInterruptHandle))
    /\ \A c \in Callers : WF_vars(Proxy(TSReturn(c)))

(***************************************************************************)
(* The proxy shared by two threads, with its worker, the platform and a    *)
(* thread that holds an interrupt handle; every thread that can take a     *)
(* step eventually takes one.                                              *)
(***************************************************************************)
ProxyCallers == {"t1", "t2"}

\* the hot keys the callers register
ProxyChoices ==
    { << "A", Some(<< "Ctrl", "Alt" >>), None, Some("cb1") >>,
      << "B", None, Some(<< "Shift" >>), Some("cb2") >> }

\* the counter has an id left for one more Register message
CanRegister ==
    id + Cardinality({n \in 1..Len(requests) : requests[n].kind = "Register"}) < MaxRegs

ProxyInit == InitProxyFor(ProxyCallers)

ProxyNext ==
    \/ \E c \in ProxyCallers, h \in ProxyChoices :
          CanRegister /\ Proxy(TSRegisterExtrakeys(c, h[1], h[2], h[3], h[4]))
    \/ \E c \in ProxyCallers, i \in 0..(MaxRegs - 1) : Proxy(TSUnregister(c, i))
    \/ \E c \in ProxyCallers : Proxy(TSUnregisterAll(c))
    \/ \E c \in ProxyCallers : Proxy(TSHandleHotkey(c))
    \/ \E c \in ProxyCallers : Proxy(TSEventLoop(c))
    \/ \E c \in ProxyCallers : Proxy(TSInterruptHandle(c))
    \/ \E c \in ProxyCallers : Proxy(TSReturn(c))
    \/ \E c \in ProxyCallers : Proxy(TSDrop(c))
    \/ \E c \in ProxyCallers : Proxy(TSDropReturn(c))
    \/ Proxy(ServeRegister)
    \/ Proxy(ServeUnregister)
    \/ Proxy(ServeUnregisterAll)
    \/ Proxy(ServeHandleHotkey)
    \/ Proxy(ServeEventLoop)
    \/ Proxy(ServeInterruptHandle)
    \/ Proxy(ServeExit)
    \/ Proxy(WorkerPoll)
    \/ Proxy(WorkerDrop)
    \/ Len(queue) < MaxPending /\ Interrupt
    \/ \E i \in DOMAIN hotkeys : Len(queue) < MaxPending /\ Fire(i)

ProxySpec ==
    /\ ProxyInit
    /\ [][ProxyNext]_vars
    /\ WF_vars(Proxy(ServeRegister \/ ServeUnregister \/ ServeUnregisterAll
                        \/ ServeHandleHotkey \/ ServeEventLoop
                        \/ ServeInterruptHandle \/ ServeExit))
    /\ WF_vars(Proxy(WorkerPoll))
    /\ WF_vars(Proxy(WorkerDrop))
    /\ \A c \in ProxyCallers : WF_vars(Proxy(TSReturn(c)))
    /\ \A c \in ProxyCallers : WF_vars(Proxy(TSDropReturn(c)))

(***************************************************************************)
(* The proxy used by one thread for register, unregister and               *)
(* unregister_all under both no-repeat settings, next to the               *)
(* single-threaded manager that is given the same calls (ref).             *)
(***************************************************************************)
RefineNext ==
    \/ \E b \in BOOLEAN : Proxy(TSSetNoRepeat(b))
    \/ \E c \in Callers, h \in HotkeyChoices :
          CanRegister /\ Proxy(TSRegisterExtrakeys(c, h[1], h[2], h[3], h[4]))
    \/ \E c \in Callers, i \in 0..(MaxRegs - 1) : Proxy(TSUnregister(c, i))
    \/ \E c \in Callers : Proxy(TSUnregisterAll(c))
    \/ \E c \in Callers : Proxy(TSReturn(c))
    \/ Proxy(ServeRegister)
    \/ Proxy(ServeUnregister)
    \/ Proxy(ServeUnregisterAll)

RefineSpec == InitProxy /\ [][RefineNext]_vars

(***************************************************************************)
(* global.rs: GlobalHotkeyManager, the facade over the proxy, with the      *)
(* thread that uses it and the threads it spawns.                          *)
(***************************************************************************)
Users == {<< "user", 1 >>}
LoopThreads == {<< "loop", n >> : n \in 1..MaxSpawns}
CleanThreads == {<< "clean", n >> : n \in 1..MaxSpawns}
FThreads == Users \cup LoopThreads \cup CleanThreads

\* the names the users put in the table, each with its GlobalHotkey
Names == {"n1", "n2"}
GlobalHotkeys ==
    [n1 |-> [key |-> "A", modifiers |-> Some(<< "Ctrl", "Alt" >>), extras |-> None,
             action |-> Some("cb1")],
     n2 |-> [key |-> "B", modifiers |-> None, extras |-> None, action |-> None]]

\* everything but last and the facade
backvars ==
    << hwnd, id, handlers, no_repeat, hotkeys, queue, pc, handle_out, issued,
       unregistered, after_ua, mode, ts_no_repeat, requests, waiting, replies,
       serving, ref, HOTKEYS, winthreads >>

\* a thread of the facade outside any call
Resting(p) == [pc |-> p, todo |-> << >>, sent |-> << >>]

\* no mutex of the facade is held
Unlocked == [manager |-> None, hotkeys |-> None, key_ids |-> None]

\* GlobalHotkeyManager::default(): a proxy with its no-repeat flag cleared,
\* an empty table, no ids, not listening
InitFacade ==
    /\ NewManager
    /\ no_repeat = FALSE
    /\ mode = "proxy"
    /\ ts_no_repeat = FALSE
    /\ requests = << >>
    /\ waiting = [c \in FThreads |-> "no"]
    /\ replies = [c \in FThreads |-> None]
    /\ serving = None
    /\ ref = NewRef(FThreads)
    /\ facade = [listening |-> FALSE, table |-> EmptyMap, key_ids |-> << >>,
                 lock |-> Unlocked, loops |-> 0, cleans |-> 0]
    /\ fthreads = [t \in FThreads |->
                     IF t \in Users THEN Resting("idle") ELSE Resting("unborn")]
    /\ NoWinHotKeys

\* a step of the facade that calls neither the proxy nor the platform
FacadeOnly(op, res) ==
    /\ last' = Call(op, 0, res)
    /\ UNCHANGED backvars

\* register_hotkey / add_hotkey: the table is locked for the insert
FRegisterHotkey(t, name, hotkey) ==
    /\ fthreads[t].pc = "idle"
    /\ facade.lock.hotkeys = None
    /\ facade' = [facade EXCEPT !.table = Insert(facade.table, name, hotkey)]
    /\ UNCHANGED fthreads
    /\ FacadeOnly("register_hotkey", "")

\* remove_hotkey: the table is locked for the remove
FRemoveHotkey(t, name) ==
    /\ fthreads[t].pc = "idle"
    /\ facade.lock.hotkeys = None
    /\ facade' = [facade EXCEPT !.table = IF name \in DOMAIN facade.table
                                          THEN Remove(facade.table, name)
                                          ELSE facade.table]
    /\ UNCHANGED fthreads
    /\ FacadeOnly("remove_hotkey", IF name \in DOMAIN facade.table THEN "Some" ELSE "None")

\* a start that goes on whatever the flag says
FStartCheckBlind(t) ==
    /\ fthreads[t].pc = "idle"
    /\ fthreads' = [fthreads EXCEPT ![t].pc = "start_store"]
    /\ UNCHANGED facade
    /\ FacadeOnly("start", "begun")

\* start(): self.listening.load(); when it is set the call returns
FStartCheck(t) ==
    /\ fthreads[t].pc = "idle"
    /\ IF facade.listening
       THEN /\ UNCHANGED fvars
            /\ FacadeOnly("start", "already listening")
       ELSE /\ fthreads' = [fthreads EXCEPT ![t].pc = "start_store"]
            /\ UNCHANGED facade
            /\ FacadeOnly("start", "begun")

\* start(): listening.store(true)
FStartStore(t) ==
    /\ fthreads[t].pc = "start_store"
    /\ facade' = [facade EXCEPT !.listening = TRUE]
    /\ fthreads' = [fthreads EXCEPT ![t].pc = "start_lock"]
    /\ FacadeOnly("none", "")

\* start(): hotkey_manager.lock(); the guard lives until the call returns
FStartLock(t) ==
    /\ fthreads[t].pc = "start_lock"
    /\ facade.lock.manager = None
    /\ facade' = [facade EXCEPT !.lock.manager = Some(t)]
    /\ fthreads' = [fthreads EXCEPT ![t].pc = "start_lock_hotkeys"]
    /\ FacadeOnly("none", "")

\* start(): self.hotkeys.lock(), with the manager locked; the guard lives
\* until the call returns
FStartLockHotkeys(t) ==
    /\ fthreads[t].pc = "start_lock_hotkeys"
    /\ facade.lock.hotkeys = None
    /\ facade' = [facade EXCEPT !.lock.hotkeys = Some(t)]
    /\ fthreads' = [fthreads EXCEPT ![t].pc = "start_lock_ids"]
    /\ FacadeOnly("none", "")

\* start(): self.key_ids.lock(), with the manager and the table locked;
\* the guard lives until the call returns; hotkeys.values() yields the
\* entries in some order
FStartLockIds(t) ==
    /\ fthreads[t].pc = "start_lock_ids"
    /\ facade.lock.key_ids = None
    /\ facade' = [facade EXCEPT !.lock.key_ids = Some(t)]
    /\ \E order \in Orders(DOMAIN facade.table) :
          fthreads' = [fthreads EXCEPT ![t] = [pc |-> "start_iter", todo |-> order,
                                               sent |-> << >>]]
    /\ FacadeOnly("none", "")

\* start(): register_extrakeys for the next entry, with its action or with
\* None, through the proxy
FStartSubmit(t) ==
    /\ fthreads[t].pc = "start_iter"
    /\ fthreads[t].todo # << >>
    /\ LET hotkey == facade.table[Head(fthreads[t].todo)]
       IN  TSRegisterExtrakeys(t, hotkey.key, hotkey.modifiers, hotkey.extras,
                               hotkey.action)
    /\ fthreads' = [fthreads EXCEPT ![t].pc = "start_wait"]
    /\ UNCHANGED facade

\* a start that records an id whatever the result was
FStartResultPushesAll(t) ==
    /\ fthreads[t].pc = "start_wait"
    /\ TSReturn(t)
    /\ facade' = [facade EXCEPT !.key_ids = Append(@, id - 1)]
    /\ fthreads' = [fthreads EXCEPT
                      ![t].pc = "start_iter",
                      ![t].todo = Tail(@),
                      ![t].sent = Append(@, [name |-> Head(fthreads[t].todo),
                                             result |-> replies[t][1]])]

\* start(): the result of the registration: Ok(hotkey_id) is pushed on
\* key_ids, an error is printed; the loop goes on with the next entry
FStartResult(t) ==
    /\ fthreads[t].pc = "start_wait"
    /\ TSReturn(t)
    /\ facade' = [facade EXCEPT !.key_ids = IF replies[t][1][1] = "Ok"
                                            THEN Append(@, replies[t][1][2])
                                            ELSE @]
    /\ fthreads' = [fthreads EXCEPT
                      ![t].pc = "start_iter",
                      ![t].todo = Tail(@),
                      ![t].sent = Append(@, [name |-> Head(fthreads[t].todo),
                                             result |-> replies[t][1]])]

\* start(): after the last entry the event-loop thread is spawned; the
\* call returns and its three guards are dropped. idle is the record the
\* calling thread is left with
FStartSpawnLeaving(t, idle) ==
    /\ fthreads[t].pc = "start_iter"
    /\ fthreads[t].todo = << >>
    /\ facade.loops < MaxSpawns
    /\ facade' = [facade EXCEPT !.loops = @ + 1, !.lock = Unlocked]
    /\ fthreads' = [fthreads EXCEPT ![t] = idle,
                                    ![<< "loop", facade.loops + 1 >>].pc = "loop_check"]
    /\ last' = [Call("started", 0, "") EXCEPT !.attempted = fthreads[t].sent]
    /\ UNCHANGED backvars

\* start() returns; nothing of the call is kept
FStartSpawn(t) == FStartSpawnLeaving(t, Resting("idle"))

\* the event-loop thread: while listening.load()
FLoopCheck(l) ==
    /\ fthreads[l].pc = "loop_check"
    /\ fthreads' = [fthreads EXCEPT ![l].pc = IF facade.listening THEN "loop_lock"
                                              ELSE "done"]
    /\ UNCHANGED facade
    /\ FacadeOnly("none", "")

\* the event-loop thread: hkm.lock().unwrap().event_loop(), up to the
\* blocking recv() of the proxy
FLoopEnter(l) ==
    /\ fthreads[l].pc = "loop_lock"
    /\ facade.lock.manager = None
    /\ TSEventLoop(l)
    /\ facade' = [facade EXCEPT !.lock.manager = Some(l)]
    /\ fthreads' = [fthreads EXCEPT ![l].pc = "loop_wait"]

\* the event-loop thread: event_loop() has returned, the guard is dropped
FLoopLeave(l) ==
    /\ fthreads[l].pc = "loop_wait"
    /\ TSReturn(l)
    /\ facade' = [facade EXCEPT !.lock.manager = None]
    /\ fthreads' = [fthreads EXCEPT ![l].pc = "loop_check"]

\* a stop that goes on whatever the flag says
FStopCheckBlind(t) ==
    /\ fthreads[t].pc = "idle"
    /\ fthreads' = [fthreads EXCEPT ![t].pc = "stop_store"]
    /\ UNCHANGED facade
    /\ FacadeOnly("stop", "begun")

\* stop(): self.listening.load(); when it is clear the call returns false
FStopCheck(t) ==
    /\ fthreads[t].pc = "idle"
    /\ IF ~ facade.listening
       THEN /\ UNCHANGED fvars
            /\ FacadeOnly("stop", "false")
       ELSE /\ fthreads' = [fthreads EXCEPT ![t].pc = "stop_store"]
            /\ UNCHANGED facade
            /\ FacadeOnly("stop", "begun")

\* stop(): listening.store(false), the cleanup thread is spawned, the call
\* returns true
FStopStore(t) ==
    /\ fthreads[t].pc = "stop_store"
    /\ facade.cleans < MaxSpawns
    /\ facade' = [facade EXCEPT !.listening = FALSE, !.cleans = @ + 1]
    /\ fthreads' = [fthreads EXCEPT ![t].pc = "idle",
                                    ![<< "clean", facade.cleans + 1 >>].pc = "clean_lock"]
    /\ FacadeOnly("stop", "true")

\* the cleanup thread: manager.lock() and unregister_all(), up to the
\* blocking recv() of the proxy
FCleanEnter(k) ==
    /\ fthreads[k].pc = "clean_lock"
    /\ facade.lock.manager = None
    /\ TSUnregisterAll(k)
    /\ facade' = [facade EXCEPT !.lock.manager = Some(k)]
    /\ fthreads' = [fthreads EXCEPT ![k].pc = "clean_wait"]

\* the cleanup thread: unregister_all() has returned, an error is printed,
\* the guard is dropped
FCleanUnregistered(k) ==
    /\ fthreads[k].pc = "clean_wait"
    /\ TSReturn(k)
    /\ facade' = [facade EXCEPT !.lock.manager = None]
    /\ fthreads' = [fthreads EXCEPT ![k].pc = "clean_ids"]

\* the cleanup thread: key_ids.lock() and ids.clear(); the thread ends
FCleanClear(k) ==
    /\ fthreads[k].pc = "clean_ids"
    /\ facade.lock.key_ids = None
    /\ facade' = [facade EXCEPT !.key_ids = << >>]
    /\ fthreads' = [fthreads EXCEPT ![k].pc = "done"]
    /\ FacadeOnly("cleanup", "done")

\* the positions of start() before the table is read
BeforeIter == {"start_store", "start_lock", "start_lock_hotkeys", "start_lock_ids"}

\* the registrations user t is still to make in the start it is in
Need(t) ==
    IF fthreads[t].pc \in BeforeIter
    THEN Cardinality(DOMAIN facade.table)
    ELSE IF fthreads[t].pc = "start_iter" THEN Len(fthreads[t].todo)
    ELSE IF fthreads[t].pc = "start_wait"
         THEN Len(fthreads[t].todo) - (IF replies[t] # None THEN 1 ELSE 0)
    ELSE 0

RECURSIVE SumNeed(_)
SumNeed(S) ==
    IF S = {} THEN 0
    ELSE LET t == CHOOSE x \in S : TRUE IN Need(t) + SumNeed(S \ {t})

\* the users inside start() that have not read the table yet
Starting ==
    {t \in Users : fthreads[t].pc \in BeforeIter}

\* the users inside start()
InStart == {t \in Users : fthreads[t].pc \notin {"idle", "stop_store"}}

\* the counter has ids left, and the model threads left, for one more start
CanStart ==
    /\ id + SumNeed(Users) + Cardinality(DOMAIN facade.table) <= MaxRegs
    /\ facade.loops + Cardinality(InStart) < MaxSpawns

\* the counter has ids left for the starts under way when name is added
CanInsert(name) ==
    \/ name \in DOMAIN facade.table
    \/ id + SumNeed(Users) + Cardinality(Starting) <= MaxRegs

\* the model has a cleanup thread left for one more stop
CanStop ==
    facade.cleans + Cardinality({t \in Users : fthreads[t].pc = "stop_store"}) < MaxSpawns

\* messages other programs post to the window
ForeignMessages == {"WM_NULL"}

FacadeNext ==
    \/ \E t \in Users, name \in Names :
          CanInsert(name) /\ FRegisterHotkey(t, name, GlobalHotkeys[name])
    \/ \E t \in Users, name \in Names : FRemoveHotkey(t, name)
    \/ \E t \in Users : (facade.listening \/ CanStart) /\ FStartCheck(t)
    \/ \E t \in Users : FStartStore(t)
    \/ \E t \in Users : FStartLock(t)
    \/ \E t \in Users : FStartLockHotkeys(t)
    \/ \E t \in Users : FStartLockIds(t)
    \/ \E t \in Users : FStartSubmit(t)
    \/ \E t \in Users : FStartResult(t)
    \/ \E t \in Users : FStartSpawn(t)
    \/ \E t \in Users : (~ facade.listening \/ CanStop) /\ FStopCheck(t)
    \/ \E t \in Users : FStopStore(t)
    \/ \E l \in LoopThreads : FLoopCheck(l)
    \/ \E l \in LoopThreads : FLoopEnter(l)
    \/ \E l \in LoopThreads : FLoopLeave(l)
    \/ \E k \in CleanThreads : FCleanEnter(k)
    \/ \E k \in CleanThreads : FCleanUnregistered(k)
    \/ \E k \in CleanThreads : FCleanClear(k)
    \/ Proxy(ServeRegister)
    \/ Proxy(ServeUnregisterAll)
    \/ Proxy(ServeEventLoop)
    \/ Proxy(WorkerPoll)
    \/ \E i \in DOMAIN hotkeys : Len(queue) < MaxPending /\ Fire(i)
    \/ \E m \in ForeignMessages : Len(queue) < MaxPending /\ PostOther(m)

\* every thread that can take a step eventually takes one; calls of the
\* users and messages from outside come when they come
FacadeSpec ==
    /\ InitFacade
    /\ [][FacadeNext]_vars
    /\ WF_vars(Proxy(ServeRegister \/ ServeUnregisterAll \/ ServeEventLoop))
    /\ WF_vars(Proxy(WorkerPoll))
    /\ \A t \in Users :
          WF_vars(FStartStore(t) \/ FStartLock(t) \/ FStartLockHotkeys(t)
                     \/ FStartLockIds(t) \/ FStartSubmit(t)
                     \/ FStartResult(t) \/ FStartSpawn(t) \/ FStopStore(t))
    /\ \A l \in LoopThreads : WF_vars(FLoopCheck(l) \/ FLoopEnter(l) \/ FLoopLeave(l))
    /\ \A k \in CleanThreads :
          WF_vars(FCleanEnter(k) \/ FCleanUnregistered(k) \/ FCleanClear(k))

\* ---- start() called from two threads at once ----

\* two threads that share the facade (or hold clones of it)
Racers == {<< "user", 1 >>, << "user", 2 >>}
RaceThreads == Racers \cup LoopThreads \cup CleanThreads

\* GlobalHotkeyManager::default(), with two threads holding it
RaceInit ==
    /\ NewManager
    /\ no_repeat = FALSE
    /\ mode = "proxy"
    /\ ts_no_repeat = FALSE
    /\ requests = << >>
    /\ waiting = [c \in RaceThreads |-> "no"]
    /\ replies = [c \in RaceThreads |-> None]
    /\ serving = None
    /\ ref = NewRef(RaceThreads)
    /\ facade = [listening |-> FALSE, table |-> EmptyMap, key_ids |-> << >>,
                 lock |-> Unlocked, loops |-> 0, cleans |-> 0]
    /\ fthreads = [t \in RaceThreads |->
                     IF t \in Racers THEN Resting("idle") ELSE Resting("unborn")]
    /\ NoWinHotKeys

\* the counter has ids left, and the model threads left, for one more start
RaceCanStart ==
    /\ id + SumNeed(Racers) + Cardinality(DOMAIN facade.table) <= MaxRegs
    /\ facade.loops + Cardinality({t \in Racers : fthreads[t].pc # "idle"}) < MaxSpawns

\* the counter has ids left for the starts under way when name is added
RaceCanInsert(name) ==
    \/ name \in DOMAIN facade.table
    \/ id + SumNeed(Racers)
          + Cardinality({t \in Racers : fthreads[t].pc \in BeforeIter})
         <= MaxRegs

RaceNext ==
    \/ \E t \in Racers, name \in Names :
          RaceCanInsert(name) /\ FRegisterHotkey(t, name, GlobalHotkeys[name])
    \/ \E t \in Racers : (facade.listening \/ RaceCanStart) /\ FStartCheck(t)
    \/ \E t \in Racers : FStartStore(t)
    \/ \E t \in Racers : FStartLock(t)
    \/ \E t \in Racers : FStartLockHotkeys(t)
    \/ \E t \in Racers : FStartLockIds(t)
    \/ \E t \in Racers : FStartSubmit(t)
    \/ \E t \in Racers : FStartResult(t)
    \/ \E t \in Racers : FStartSpawn(t)
    \/ \E l \in LoopThreads : FLoopCheck(l)
    \/ \E l \in LoopThreads : FLoopEnter(l)
    \/ \E l \in LoopThreads : FLoopLeave(l)
    \/ Proxy(ServeRegister)
    \/ Proxy(ServeEventLoop)
    \/ Proxy(WorkerPoll)
    \/ \E i \in DOMAIN hotkeys : Len(queue) < MaxPending /\ Fire(i)
    \/ \E m \in ForeignMessages : Len(queue) < MaxPending /\ PostOther(m)

RaceSpec == RaceInit /\ [][RaceNext]_vars

\* ---- start() after stop(), with the results of the latest start() kept ----

\* the calling thread outside any call, remembering what its latest
\* start() submitted and what came back (a record of the history; no
\* step of the program reads it)
Remembering(t) == [Resting("idle") EXCEPT !.sent = fthreads[t].sent]

\* the calls of the facade but remove_hotkey: names are added, the facade
\* is started and stopped
RestartNext ==
    \/ \E t \in Users, name \in Names :
          CanInsert(name) /\ FRegisterHotkey(t, name, GlobalHotkeys[name])
    \/ \E t \in Users : (facade.listening \/ CanStart) /\ FStartCheck(t)
    \/ \E t \in Users : FStartStore(t)
    \/ \E t \in Users : FStartLock(t)
    \/ \E t \in Users : FStartLockHotkeys(t)
    \/ \E t \in Users : FStartLockIds(t)
    \/ \E t \in Users : FStartSubmit(t)
    \/ \E t \in Users : FStartResult(t)
    \/ \E t \in Users : FStartSpawnLeaving(t, Remembering(t))
    \/ \E t \in Users : (~ facade.listening \/ CanStop) /\ FStopCheck(t)
    \/ \E t \in Users : FStopStore(t)
    \/ \E l \in LoopThreads : FLoopCheck(l)
    \/ \E l \in LoopThreads : FLoopEnter(l)
    \/ \E l \in LoopThreads : FLoopLeave(l)
    \/ \E k \in CleanThreads : FCleanEnter(k)
    \/ \E k \in CleanThreads : FCleanUnregistered(k)
    \/ \E k \in CleanThreads : FCleanClear(k)
    \/ Proxy(ServeRegister)
    \/ Proxy(ServeUnregisterAll)
    \/ Proxy(ServeEventLoop)
    \/ Proxy(WorkerPoll)
    \/ \E i \in DOMAIN hotkeys : Len(queue) < MaxPending /\ Fire(i)
    \/ \E m \in ForeignMessages : Len(queue) < MaxPending /\ PostOther(m)

RestartSpec == InitFacade /\ [][RestartNext]_vars

(***************************************************************************)
(* The life of a single-threaded manager: construction with or without a   *)
(* window, use, teardown, and the interrupt handle that outlives it.       *)
(***************************************************************************)
LifeInit == \E created \in BOOLEAN : NewManagerOn(created) /\ no_repeat = TRUE /\ InitSingle

\* the owner drops the manager
OwnerDrop ==
    /\ mode = "single"
    /\ \E ids \in Orders(DOMAIN handlers), refused \in SUBSET (DOMAIN handlers) :
          Drop(ids, refused)
    /\ UNCHANGED tsvars

LifeNext ==
    \/ OwnerRegisterExtrakeys
    \/ OwnerUnregisterAll
    \/ OwnerHandleHotkey
    \/ OwnerEventLoop
    \/ OwnerPoll
    \/ OwnerDrop
    \/ GetInterruptHandle
    \/ Interrupt
    \/ \E i \in DOMAIN hotkeys : pc # "dropped" /\ Fire(i)

LifeSpec == LifeInit /\ [][LifeNext]_vars

(***************************************************************************)
(* The single-threaded manager where its u16 counter overflows.  The       *)
(* initial states are those after U16 - 2 register calls: the first one    *)
(* was either rejected or accepted with its hot key still registered, the  *)
(* others were rejected by the platform (a rejected call consumes its id). *)
(* `issued` holds the accepted one.                                        *)
(***************************************************************************)
WrapInit ==
    /\ hwnd = "window"
    /\ id = U16 - 2
    /\ queue = << >>
    /\ pc = "idle"
    /\ handle_out = FALSE
    /\ no_repeat = TRUE
    /\ unregistered = {}
    /\ after_ua = "no"
    /\ InitSingle
    /\ \/ /\ handlers = EmptyMap
          /\ hotkeys = EmptyMap
          /\ issued = << >>
          /\ last = Call("register", U16 - 3, "RegistrationFailed")
       \/ \E h \in HotkeyChoices :
             LET r == RegisterOn([id |-> 0, handlers |-> EmptyMap, no_repeat |-> TRUE],
                                 EmptyMap, h[1], h[2], h[3], h[4], TRUE)
             IN  /\ handlers = r.handlers
                 /\ hotkeys = r.hotkeys
                 /\ issued = << [id |-> 0, ok |-> TRUE] >>
                 /\ last = Call("register", U16 - 3, "RegistrationFailed")

\* the owner registers while the counter is within MaxRegs of the overflow
OwnerRegisterAtWidth ==
    /\ mode = "single"
    /\ id >= U16 - 2 \/ id < MaxRegs
    /\ \E h \in HotkeyChoices, free \in BOOLEAN, overflow_checks \in BOOLEAN :
          RegisterAtWidth(h[1], h[2], h[3], h[4], free, overflow_checks)
    /\ UNCHANGED tsvars

WrapNext ==
    \/ OwnerRegisterAtWidth
    \/ OwnerUnregister

WrapSpec == WrapInit /\ [][WrapNext]_vars

(***************************************************************************)
(* Registration under a changing no-repeat flag, on a single-threaded      *)
(* manager or on a proxy with one caller next to its reference manager.    *)
(***************************************************************************)
RepeatInit == Init \/ InitProxy

\* the register arguments: a chord, the same chord with NoRepeat given by
\* the caller, and a key without modifiers
RepeatChoices ==
    { << "A", Some(<< "Ctrl", "Alt" >>), None, Some("cb1") >>,
      << "A", Some(<< "Alt", "NoRepeat", "Ctrl" >>), None, Some("cb1") >>,
      << "B", None, None, Some("cb2") >> }

OwnerSetNoRepeat ==
    /\ mode = "single"
    /\ \E b \in BOOLEAN : SetNoRepeat(b)
    /\ UNCHANGED tsvars

OwnerRegisterRepeat ==
    /\ mode = "single"
    /\ \E h \in RepeatChoices, free \in BOOLEAN :
          RegisterExtrakeys(h[1], h[2], h[3], h[4], free)
    /\ UNCHANGED tsvars

RepeatNext ==
    \/ OwnerSetNoRepeat
    \/ OwnerRegisterRepeat
    \/ OwnerUnregister
    \/ \E b \in BOOLEAN : Proxy(TSSetNoRepeat(b))
    \/ \E c \in Callers, h \in RepeatChoices :
          CanRegister /\ Proxy(TSRegisterExtrakeys(c, h[1], h[2], h[3], h[4]))
    \/ \E c \in Callers, i \in 0..(MaxRegs - 1) : Proxy(TSUnregister(c, i))
    \/ \E c \in Callers : Proxy(TSReturn(c))
    \/ Proxy(ServeRegister)
    \/ Proxy(ServeUnregister)

RepeatSpec == RepeatInit /\ [][RepeatNext]_vars

(***************************************************************************)
(* manager.rs: WinHotKeyManager and the process-wide table HOTKEYS.  The   *)
(* platform's table of the manager's window is `hotkeys`; `issued` is the  *)
(* history of its register calls, (id, accepted, name).                    *)
(***************************************************************************)
\* keyboard_types::Modifiers: the bit of each flag
ModifierBit(m) ==
    CASE m = "ALT" -> 1
      [] m = "ALT_GRAPH" -> 2
      [] m = "CAPS_LOCK" -> 4
      [] m = "CONTROL" -> 8
      [] m = "FN" -> 16
      [] m = "FN_LOCK" -> 32
      [] m = "META" -> 64
      [] m = "NUM_LOCK" -> 128
      [] m = "SCROLL_LOCK" -> 256
      [] m = "SHIFT" -> 512
      [] m = "SYMBOL" -> 1024
      [] m = "SYMBOL_LOCK" -> 2048
      [] m = "HYPER" -> 4096
      [] m = "SUPER" -> 8192

\* Modifiers::bits(): the bits of the flags that are set
RECURSIVE Bits(_)
Bits(mods) ==
    IF mods = {} THEN 0
    ELSE LET m == CHOOSE x \in mods : TRUE
         IN  ModifierBit(m) + Bits(mods \ {m})

\* the keys of keyboard_types::Code that the model uses, each at the place
\* of its number: the keys parse_key returns, then Fn.  The numbers stand
\* for the discriminants of the enum, which are different for different
\* keys and far below 2^16
CodeNumbers ==
    << "Backquote", "Backslash", "BracketLeft", "BracketRight", "Pause",
      "Comma", "Digit0", "Digit1", "Digit2", "Digit3", "Digit4", "Digit5",
      "Digit6", "Digit7", "Digit8", "Digit9", "Equal", "KeyA", "KeyB",
      "KeyC", "KeyD", "KeyE", "KeyF", "KeyG", "KeyH", "KeyI", "KeyJ",
      "KeyK", "KeyL", "KeyM", "KeyN", "KeyO", "KeyP", "KeyQ", "KeyR",
      "KeyS", "KeyT", "KeyU", "KeyV", "KeyW", "KeyX", "KeyY", "KeyZ",
      "Minus", "Period", "Quote", "Semicolon", "Slash", "Backspace",
      "CapsLock", "Enter", "Space", "Tab", "Delete", "End", "Home",
      "Insert", "PageDown", "PageUp", "PrintScreen", "ScrollLock",
      "ArrowDown", "ArrowLeft", "ArrowRight", "ArrowUp", "NumLock",
      "Numpad0", "Numpad1", "Numpad2", "Numpad3", "Numpad4", "Numpad5",
      "Numpad6", "Numpad7", "Numpad8", "Numpad9", "NumpadAdd",
      "NumpadDecimal", "NumpadDivide", "NumpadEnter", "NumpadEqual",
      "NumpadMultiply", "NumpadSubtract", "Escape", "F1", "F2", "F3", "F4",
      "F5", "F6", "F7", "F8", "F9", "F10", "F11", "F12", "AudioVolumeDown",
      "AudioVolumeUp", "AudioVolumeMute", "MediaPlay", "MediaPause",
      "MediaPlayPause", "MediaStop", "MediaTrackNext", "MediaTrackPrevious",
      "F13", "F14", "F15", "F16", "F17", "F18", "F19", "F20", "F21", "F22",
      "F23", "F24", "Fn" >>

\* key as u32
KeyAsU32(key) == (CHOOSE n \in 1..Len(CodeNumbers) : CodeNumbers[n] = key) - 1

\* bits | key, without the shift
HotKeyIdNoShift(bits, key) == BitOr(bits, key)

\* mods.bits() << 16 | key as u32, in the 32 bits of the id: the shift
\* drops the bits above the sixteenth
HotKeyId(bits, key) == BitOr((bits % U16) * U16, key)

\* HotKey::new(mods, key, name): META is replaced by SUPER and the id packs
\* the modifiers and the key
NewHotKey(mods, key, name) ==
    LET m == IF "META" \in mods THEN (mods \ {"META"}) \cup {"SUPER"} ELSE mods
    IN  [mods |-> m, key |-> key, id |-> HotKeyId(Bits(m), KeyAsU32(key)),
         name |-> name]

\* key_to_vk: the virtual-key code of a key, if it has one
KeyToVk(key) ==
    CASE key = "KeyA" -> Some(65)
      [] key = "KeyB" -> Some(66)
      [] key = "KeyC" -> Some(67)
      [] key = "KeyD" -> Some(68)
      [] key = "KeyE" -> Some(69)
      [] key = "KeyF" -> Some(70)
      [] key = "KeyG" -> Some(71)
      [] key = "KeyH" -> Some(72)
      [] key = "KeyI" -> Some(73)
      [] key = "KeyJ" -> Some(74)
      [] key = "KeyK" -> Some(75)
      [] key = "KeyL" -> Some(76)
      [] key = "KeyM" -> Some(77)
      [] key = "KeyN" -> Some(78)
      [] key = "KeyO" -> Some(79)
      [] key = "KeyP" -> Some(80)
      [] key = "KeyQ" -> Some(81)
      [] key = "KeyR" -> Some(82)
      [] key = "KeyS" -> Some(83)
      [] key = "KeyT" -> Some(84)
      [] key = "KeyU" -> Some(85)
      [] key = "KeyV" -> Some(86)
      [] key = "KeyW" -> Some(87)
      [] key = "KeyX" -> Some(88)
      [] key = "KeyY" -> Some(89)
      [] key = "KeyZ" -> Some(90)
      [] key = "Digit0" -> Some(48)
      [] key = "Digit1" -> Some(49)
      [] key = "Digit2" -> Some(50)
      [] key = "Digit3" -> Some(51)
      [] key = "Digit4" -> Some(52)
      [] key = "Digit5" -> Some(53)
      [] key = "Digit6" -> Some(54)
      [] key = "Digit7" -> Some(55)
      [] key = "Digit8" -> Some(56)
      [] key = "Digit9" -> Some(57)
      [] key = "Equal" -> Some(187)
      [] key = "Comma" -> Some(188)
      [] key = "Minus" -> Some(189)
      [] key = "Period" -> Some(190)
      [] key = "Semicolon" -> Some(186)
      [] key = "Slash" -> Some(191)
      [] key = "Backquote" -> Some(192)
      [] key = "BracketLeft" -> Some(219)
      [] key = "Backslash" -> Some(220)
      [] key = "BracketRight" -> Some(221)
      [] key = "Quote" -> Some(222)
      [] key = "Backspace" -> Some(8)
      [] key = "Tab" -> Some(9)
      [] key = "Space" -> Some(32)
      [] key = "Enter" -> Some(13)
      [] key = "CapsLock" -> Some(20)
      [] key = "Escape" -> Some(27)
      [] key = "PageUp" -> Some(33)
      [] key = "PageDown" -> Some(34)
      [] key = "End" -> Some(35)
      [] key = "Home" -> Some(36)
      [] key = "ArrowLeft" -> Some(37)
      [] key = "ArrowUp" -> Some(38)
      [] key = "ArrowRight" -> Some(39)
      [] key = "ArrowDown" -> Some(40)
      [] key = "PrintScreen" -> Some(44)
      [] key = "Insert" -> Some(45)
      [] key = "Delete" -> Some(46)
      [] key = "F1" -> Some(112)
      [] key = "F2" -> Some(113)
      [] key = "F3" -> Some(114)
      [] key = "F4" -> Some(115)
      [] key = "F5" -> Some(116)
      [] key = "F6" -> Some(117)
      [] key = "F7" -> Some(118)
      [] key = "F8" -> Some(119)
      [] key = "F9" -> Some(120)
      [] key = "F10" -> Some(121)
      [] key = "F11" -> Some(122)
      [] key = "F12" -> Some(123)
      [] key = "F13" -> Some(124)
      [] key = "F14" -> Some(125)
      [] key = "F15" -> Some(126)
      [] key = "F16" -> Some(127)
      [] key = "F17" -> Some(128)
      [] key = "F18" -> Some(129)
      [] key = "F19" -> Some(130)
      [] key = "F20" -> Some(131)
      [] key = "F21" -> Some(132)
      [] key = "F22" -> Some(133)
      [] key = "F23" -> Some(134)
      [] key = "F24" -> Some(135)
      [] key = "NumLock" -> Some(144)
      [] key = "Numpad0" -> Some(96)
      [] key = "Numpad1" -> Some(97)
      [] key = "Numpad2" -> Some(98)
      [] key = "Numpad3" -> Some(99)
      [] key = "Numpad4" -> Some(100)
      [] key = "Numpad5" -> Some(101)
      [] key = "Numpad6" -> Some(102)
      [] key = "Numpad7" -> Some(103)
      [] key = "Numpad8" -> Some(104)
      [] key = "Numpad9" -> Some(105)
      [] key = "NumpadAdd" -> Some(107)
      [] key = "NumpadDecimal" -> Some(110)
      [] key = "NumpadDivide" -> Some(111)
      [] key = "NumpadEnter" -> Some(13)
      [] key = "NumpadEqual" -> Some(69)
      [] key = "NumpadMultiply" -> Some(106)
      [] key = "NumpadSubtract" -> Some(109)
      [] key = "ScrollLock" -> Some(145)
      [] key = "AudioVolumeDown" -> Some(174)
      [] key = "AudioVolumeUp" -> Some(175)
      [] key = "AudioVolumeMute" -> Some(173)
      [] key = "MediaPlay" -> Some(250)
      [] key = "MediaPause" -> Some(19)
      [] key = "MediaPlayPause" -> Some(179)
      [] key = "MediaStop" -> Some(178)
      [] key = "MediaTrackNext" -> Some(176)
      [] key = "MediaTrackPrevious" -> Some(177)
      [] key = "Pause" -> Some(19)
      [] OTHER -> None

\* the fsModifiers that register builds: MOD_NOREPEAT and a bit for each
\* modifier of the hot key
WinMods(mods) ==
    LET m0 == ToModCode("NoRepeat")
        m1 == IF "SHIFT" \in mods THEN BitOr(m0, ToModCode("Shift")) ELSE m0
        m2 == IF mods \cap {"SUPER", "META"} # {} THEN BitOr(m1, ToModCode("Win")) ELSE m1
        m3 == IF "ALT" \in mods THEN BitOr(m2, ToModCode("Alt")) ELSE m2
    IN  IF "CONTROL" \in mods THEN BitOr(m3, ToModCode("Ctrl")) ELSE m3

\* add_hotkey(key, value)
AddHotkey(table, key, value) == Insert(table, key, value)

\* remove_hotkey(key)
RemoveHotkey(table, key) == IF key \in DOMAIN table THEN Remove(table, key) ELSE table

\* the hot keys the callers of WinHotKeyManager use: one chord under two
\* names, two keys with one virtual-key code, and a key without one
WinHotKeys ==
    { NewHotKey({"CONTROL"}, "KeyR", Some("a")),
      NewHotKey({"CONTROL"}, "KeyR", Some("b")),
      NewHotKey({}, "Enter", None),
      NewHotKey({}, "NumpadEnter", Some("n")),
      NewHotKey({"META"}, "Fn", Some("f")) }

\* no manager is in use: the variables of the managers at rest, in mode m
AtRest(m) ==
    /\ hwnd = "window"
    /\ id = 0
    /\ handlers = EmptyMap
    /\ no_repeat = TRUE
    /\ hotkeys = EmptyMap
    /\ queue = << >>
    /\ pc = "idle"
    /\ handle_out = FALSE
    /\ issued = << >>
    /\ unregistered = {}
    /\ after_ua = "no"
    /\ mode = m
    /\ ts_no_repeat = TRUE
    /\ requests = << >>
    /\ waiting = [c \in {} |-> "no"]
    /\ replies = [c \in {} |-> None]
    /\ serving = None
    /\ ref = NewRef({})
    /\ NoFacade
    /\ NoWinHotKeys

\* WinHotKeyManager::new() returned Ok, nothing is registered
WinInit == AtRest("win") /\ last = Call("new", 0, "Ok")

\* what WinHotKeyManager has no part in
WinRest ==
    UNCHANGED << id, handlers, no_repeat, queue, pc, handle_out, after_ua,
                 mode, ts_no_repeat, requests, waiting, replies, serving, ref,
                 facade, fthreads >>

\* what a WinHotKeyManager call leaves alone
WinFrame == WinRest /\ UNCHANGED hwnd

\* the error code of Windows that register looks for
ERROR_HOTKEY_ALREADY_REGISTERED == 1409

\* the values GetLastError may give when register reads it
LastErrors == {ERROR_HOTKEY_ALREADY_REGISTERED, 5, 1400}

\* WinHotKeyManager::register(hotkey), up to add_hotkey: the modifiers, the
\* key code, and RegisterHotKey; a key without a code ends the call
WinRegister(hotkey, free) ==
    LET vk == KeyToVk(hotkey.key)
        mods == WinMods(hotkey.mods)
        result == RegisterHotKey(hotkeys, mods, vk[1], free)
    IN  /\ mode = "win"
        /\ hwnd = "window"
        /\ winthreads.call = None
        /\ Len(issued) < MaxWinCalls
        /\ IF vk = None
           THEN /\ last' = [Call("register", hotkey.id, "FailedToRegister") EXCEPT
                              !.args = << hotkey >>]
                /\ issued' = Append(issued, [id |-> hotkey.id, ok |-> FALSE,
                                             name |-> hotkey.name])
                /\ UNCHANGED << hotkeys, winthreads >>
           ELSE /\ hotkeys' = IF result
                              THEN Insert(hotkeys, hotkey.id,
                                          [modifiers |-> mods, vk |-> vk[1]])
                              ELSE hotkeys
                /\ winthreads' = [winthreads EXCEPT
                                    !.call = Some([op |-> "register", hotkey |-> hotkey,
                                                   result |-> result])]
                /\ last' = [Call("RegisterHotKey", hotkey.id,
                                 IF result THEN "nonzero" ELSE "0") EXCEPT
                              !.args = << hotkey >>]
                /\ issued' = Append(issued, [id |-> hotkey.id, ok |-> result,
                                             name |-> hotkey.name])
        /\ UNCHANGED << HOTKEYS, unregistered >>
        /\ WinFrame

\* WinHotKeyManager::register(hotkey), from add_hotkey on: the table is
\* locked for the insert, whatever RegisterHotKey returned; on 0 the last
\* error of the thread decides between AlreadyRegistered and OsError
WinRegisterReturn(error) ==
    /\ mode = "win"
    /\ winthreads.call # None
    /\ winthreads.call[1].op = "register"
    /\ LET call == winthreads.call[1]
       IN  /\ HOTKEYS' = AddHotkey(HOTKEYS, call.hotkey.id, call.hotkey.name)
           /\ last' = [Call("register", call.hotkey.id,
                            IF call.result THEN "Ok"
                            ELSE IF error = ERROR_HOTKEY_ALREADY_REGISTERED
                                 THEN "AlreadyRegistered"
                                 ELSE "OsError") EXCEPT
                         !.args = << call.hotkey >>]
    /\ winthreads' = [winthreads EXCEPT !.call = None]
    /\ UNCHANGED << hotkeys, issued, unregistered >>
    /\ WinFrame

\* WinHotKeyManager::unregister(hotkey), up to remove_hotkey:
\* UnregisterHotKey
WinUnregister(hotkey, granted) ==
    LET result == UnregisterHotKey(hotkeys, hotkey.id, granted)
    IN  /\ mode = "win"
        /\ hwnd = "window"
        /\ winthreads.call = None
        /\ hotkeys' = IF result THEN Remove(hotkeys, hotkey.id) ELSE hotkeys
        /\ winthreads' = [winthreads EXCEPT
                            !.call = Some([op |-> "unregister", hotkey |-> hotkey,
                                           result |-> result])]
        /\ last' = [Call("UnregisterHotKey", hotkey.id,
                         IF result THEN "nonzero" ELSE "0") EXCEPT
                      !.args = << hotkey >>]
        /\ unregistered' = IF result THEN unregistered \cup {hotkey.id} ELSE unregistered
        /\ UNCHANGED << HOTKEYS, issued >>
        /\ WinFrame

\* WinHotKeyManager::unregister(hotkey), from remove_hotkey on: the table
\* is locked for the remove, whatever UnregisterHotKey returned
WinUnregisterReturn ==
    /\ mode = "win"
    /\ winthreads.call # None
    /\ winthreads.call[1].op = "unregister"
    /\ LET call == winthreads.call[1]
       IN  /\ HOTKEYS' = RemoveHotkey(HOTKEYS, call.hotkey.id)
           /\ last' = [Call("unregister", call.hotkey.id,
                            IF call.result THEN "Ok" ELSE "FailedToUnRegister") EXCEPT
                         !.args = << call.hotkey >>]
    /\ winthreads' = [winthreads EXCEPT !.call = None]
    /\ UNCHANGED << hotkeys, issued, unregistered >>
    /\ WinFrame

\* Drop for WinHotKeyManager, on the thread that owns the manager and
\* between its calls: DestroyWindow; nothing is unregistered and the table
\* HOTKEYS is left as it is
WinDrop ==
    /\ mode = "win"
    /\ hwnd = "window"
    /\ winthreads.call = None
    /\ hwnd' = "destroyed"
    /\ last' = Call("drop", 0, "Ok")
    /\ UNCHANGED << hotkeys, HOTKEYS, winthreads, issued, unregistered >>
    /\ WinRest

\* the ids of the WM_HOTKEY messages that reach win_hotkey_proc: those of
\* the hot keys in use, registered or not (a message may have been queued
\* before its hot key was unregistered, and any thread may post one)
WinMessageIds == {hotkey.id : hotkey \in WinHotKeys}

\* win_hotkey_proc for a WM_HOTKEY message with wparam i, with the table
\* locked: the Pressed event carries the name that HOTKEYS holds for i, if
\* any; a thread is spawned that keeps the id and the name
WinHotkeyProc(i) ==
    /\ mode = "win"
    /\ Len(winthreads.held) < MaxHeld
    /\ LET name == IF i \in DOMAIN HOTKEYS THEN HOTKEYS[i] ELSE None
       IN  /\ last' = [Call("event", i, "Pressed") EXCEPT !.ret = name]
           /\ winthreads' = [winthreads EXCEPT
                               !.held = Append(@, [id |-> i, name |-> name])]
    /\ UNCHANGED << hotkeys, HOTKEYS, issued, unregistered >>
    /\ WinFrame

\* the thread win_hotkey_proc spawned: GetAsyncKeyState gives 0, the key is
\* up; the Released event carries the id and the name of the press, and
\* the thread ends
WinReleased(n) ==
    /\ mode = "win"
    /\ n \in 1..Len(winthreads.held)
    /\ last' = [Call("event", winthreads.held[n].id, "Released") EXCEPT
                  !.ret = winthreads.held[n].name]
    /\ winthreads' = [winthreads EXCEPT
                        !.held = SubSeq(@, 1, n - 1) \o SubSeq(@, n + 1, Len(@))]
    /\ UNCHANGED << hotkeys, HOTKEYS, issued, unregistered >>
    /\ WinFrame

WinNext ==
    \/ \E hotkey \in WinHotKeys, free \in BOOLEAN : WinRegister(hotkey, free)
    \/ \E error \in LastErrors : WinRegisterReturn(error)
    \/ \E hotkey \in WinHotKeys, granted \in BOOLEAN : WinUnregister(hotkey, granted)
    \/ WinUnregisterReturn
    \/ \E i \in WinMessageIds : WinHotkeyProc(i)
    \/ WinDrop
    \/ \E n \in 1..Len(winthreads.held) : WinReleased(n)

WinSpec == WinInit /\ [][WinNext]_vars

(***************************************************************************)
(* hotkey.rs: the HotKey encoder and parser.  A string is the sequence of  *)
(* its characters.                                                         *)
(***************************************************************************)
\* the character U+0060 (grave accent, the key Backquote)
Grave == "grave"

LowerCase == << "a", "b", "c", "d", "e", "f", "g", "h", "i", "j", "k", "l", "m", "n", "o", "p", "q", "r", "s", "t", "u", "v", "w", "x", "y", "z" >>
UpperCase == << "A", "B", "C", "D", "E", "F", "G", "H", "I", "J", "K", "L", "M", "N", "O", "P", "Q", "R", "S", "T", "U", "V", "W", "X", "Y", "Z" >>

\* char::to_ascii_uppercase: a to z become A to Z, every other character
\* is left as it is
ToAsciiUpperChar(c) ==
    IF \E n \in 1..Len(LowerCase) : LowerCase[n] = c
    THEN UpperCase[CHOOSE n \in 1..Len(LowerCase) : LowerCase[n] = c]
    ELSE c

\* str::to_ascii_uppercase
ToAsciiUppercase(str) == [n \in 1..Len(str) |-> ToAsciiUpperChar(str[n])]

\* the characters outside ASCII that char::to_uppercase changes, each with
\* the characters it becomes (Unicode 17.0, the unconditional mappings of
\* UnicodeData.txt and SpecialCasing.txt). A character outside ASCII is
\* written by its code point, "U+00E9"
UppercaseTable ==
    { << "U+00B5", << "U+039C" >> >>,
      << "U+00DF", << "S", "S" >> >>,
      << "U+00E0", << "U+00C0" >> >>,
      << "U+00E1", << "U+00C1" >> >>,
      << "U+00E2", << "U+00C2" >> >>,
      << "U+00E3", << "U+00C3" >> >>,
      << "U+00E4", << "U+00C4" >> >>,
      << "U+00E5", << "U+00C5" >> >>,
      << "U+00E6", << "U+00C6" >> >>,
      << "U+00E7", << "U+00C7" >> >>,
      << "U+00E8", << "U+00C8" >> >>,
      << "U+00E9", << "U+00C9" >> >>,
      << "U+00EA", << "U+00CA" >> >>,
      << "U+00EB", << "U+00CB" >> >>,
      << "U+00EC", << "U+00CC" >> >>,
      << "U+00ED", << "U+00CD" >> >>,
      << "U+00EE", << "U+00CE" >> >>,
      << "U+00EF", << "U+00CF" >> >>,
      << "U+00F0", << "U+00D0" >> >>,
      << "U+00F1", << "U+00D1" >> >>,
      << "U+00F2", << "U+00D2" >> >>,
      << "U+00F3", << "U+00D3" >> >>,
      << "U+00F4", << "U+00D4" >> >>,
      << "U+00F5", << "U+00D5" >> >>,
      << "U+00F6", << "U+00D6" >> >>,
      << "U+00F8", << "U+00D8" >> >>,
      << "U+00F9", << "U+00D9" >> >>,
      << "U+00FA", << "U+00DA" >> >>,
      << "U+00FB", << "U+00DB" >> >>,
      << "U+00FC", << "U+00DC" >> >>,
      << "U+00FD", << "U+00DD" >> >>,
      << "U+00FE", << "U+00DE" >> >>,
      << "U+00FF", << "U+0178" >> >>,
      << "U+0101", << "U+0100" >> >>,
      << "U+0103", << "U+0102" >> >>,
      << "U+0105", << "U+0104" >> >>,
      << "U+0107", << "U+0106" >> >>,
      << "U+0109", << "U+0108" >> >>,
      << "U+010B", << "U+010A" >> >>,
      << "U+010D", << "U+010C" >> >>,
      << "U+010F", << "U+010E" >> >>,
      << "U+0111", << "U+0110" >> >>,
      << "U+0113", << "U+0112" >> >>,
      << "U+0115", << "U+0114" >> >>,
      << "U+0117", << "U+0116" >> >>,
      << "U+0119", << "U+0118" >> >>,
      << "U+011B", << "U+011A" >> >>,
      << "U+011D", << "U+011C" >> >>,
      << "U+011F", << "U+011E" >> >>,
      << "U+0121", << "U+0120" >> >>,
      << "U+0123", << "U+0122" >> >>,
      << "U+0125", << "U+0124" >> >>,
      << "U+0127", << "U+0126" >> >>,
      << "U+0129", << "U+0128" >> >>,
      << "U+012B", << "U+012A" >> >>,
      << "U+012D", << "U+012C" >> >>,
      << "U+012F", << "U+012E" >> >>,
      << "U+0131", << "I" >> >>,
      << "U+0133", << "U+0132" >> >>,
      << "U+0135", << "U+0134" >> >>,
      << "U+0137", << "U+0136" >> >>,
      << "U+013A", << "U+0139" >> >>,
      << "U+013C", << "U+013B" >> >>,
      << "U+013E", << "U+013D" >> >>,
      << "U+0140", << "U+013F" >> >>,
      << "U+0142", << "U+0141" >> >>,
      << "U+0144", << "U+0143" >> >>,
      << "U+0146", << "U+0145" >> >>,
      << "U+0148", << "U+0147" >> >>,
      << "U+0149", << "U+02BC", "N" >> >>,
      << "U+014B", << "U+014A" >> >>,
      << "U+014D", << "U+014C" >> >>,
      << "U+014F", << "U+014E" >> >>,
      << "U+0151", << "U+0150" >> >>,
      << "U+0153", << "U+0152" >> >>,
      << "U+0155", << "U+0154" >> >>,
      << "U+0157", << "U+0156" >> >>,
      << "U+0159", << "U+0158" >> >>,
      << "U+015B", << "U+015A" >> >>,
      << "U+015D", << "U+015C" >> >>,
      << "U+015F", << "U+015E" >> >>,
      << "U+0161", << "U+0160" >> >>,
      << "U+0163", << "U+0162" >> >>,
      << "U+0165", << "U+0164" >> >>,
      << "U+0167", << "U+0166" >> >>,
      << "U+0169", << "U+0168" >> >>,
      << "U+016B", << "U+016A" >> >>,
      << "U+016D", << "U+016C" >> >>,
      << "U+016F", << "U+016E" >> >>,
      << "U+0171", << "U+0170" >> >>,
      << "U+0173", << "U+0172" >> >>,
      << "U+0175", << "U+0174" >> >>,
      << "U+0177", << "U+0176" >> >>,
      << "U+017A", << "U+0179" >> >>,
      << "U+017C", << "U+017B" >> >>,
      << "U+017E", << "U+017D" >> >>,
      << "U+017F", << "S" >> >>,
      << "U+0180", << "U+0243" >> >>,
      << "U+0183", << "U+0182" >> >>,
      << "U+0185", << "U+0184" >> >>,
      << "U+0188", << "U+0187" >> >>,
      << "U+018C", << "U+018B" >> >>,
      << "U+0192", << "U+0191" >> >>,
      << "U+0195", << "U+01F6" >> >>,
      << "U+0199", << "U+0198" >> >>,
      << "U+019A", << "U+023D" >> >>,
      << "U+019B", << "U+A7DC" >> >>,
      << "U+019E", << "U+0220" >> >>,
      << "U+01A1", << "U+01A0" >> >>,
      << "U+01A3", << "U+01A2" >> >>,
      << "U+01A5", << "U+01A4" >> >>,
      << "U+01A8", << "U+01A7" >> >>,
      << "U+01AD", << "U+01AC" >> >>,
      << "U+01B0", << "U+01AF" >> >>,
      << "U+01B4", << "U+01B3" >> >>,
      << "U+01B6", << "U+01B5" >> >>,
      << "U+01B9", << "U+01B8" >> >>,
      << "U+01BD", << "U+01BC" >> >>,
      << "U+01BF", << "U+01F7" >> >>,
      << "U+01C5", << "U+01C4" >> >>,
      << "U+01C6", << "U+01C4" >> >>,
      << "U+01C8", << "U+01C7" >> >>,
      << "U+01C9", << "U+01C7" >> >>,
      << "U+01CB", << "U+01CA" >> >>,
      << "U+01CC", << "U+01CA" >> >>,
      << "U+01CE", << "U+01CD" >> >>,
      << "U+01D0", << "U+01CF" >> >>,
      << "U+01D2", << "U+01D1" >> >>,
      << "U+01D4", << "U+01D3" >> >>,
      << "U+01D6", << "U+01D5" >> >>,
      << "U+01D8", << "U+01D7" >> >>,
      << "U+01DA", << "U+01D9" >> >>,
      << "U+01DC", << "U+01DB" >> >>,
      << "U+01DD", << "U+018E" >> >>,
      << "U+01DF", << "U+01DE" >> >>,
      << "U+01E1", << "U+01E0" >> >>,
      << "U+01E3", << "U+01E2" >> >>,
      << "U+01E5", << "U+01E4" >> >>,
      << "U+01E7", << "U+01E6" >> >>,
      << "U+01E9", << "U+01E8" >> >>,
      << "U+01EB", << "U+01EA" >> >>,
      << "U+01ED", << "U+01EC" >> >>,
      << "U+01EF", << "U+01EE" >> >>,
      << "U+01F0", << "J", "U+030C" >> >>,
      << "U+01F2", << "U+01F1" >> >>,
      << "U+01F3", << "U+01F1" >> >>,
      << "U+01F5", << "U+01F4" >> >>,
      << "U+01F9", << "U+01F8" >> >>,
      << "U+01FB", << "U+01FA" >> >>,
      << "U+01FD", << "U+01FC" >> >>,
      << "U+01FF", << "U+01FE" >> >>,
      << "U+0201", << "U+0200" >> >>,
      << "U+0203", << "U+0202" >> >>,
      << "U+0205", << "U+0204" >> >>,
      << "U+0207", << "U+0206" >> >>,
      << "U+0209", << "U+0208" >> >>,
      << "U+020B", << "U+020A" >> >>,
      << "U+020D", << "U+020C" >> >>,
      << "U+020F", << "U+020E" >> >>,
      << "U+0211", << "U+0210" >> >>,
      << "U+0213", << "U+0212" >> >>,
      << "U+0215", << "U+0214" >> >>,
      << "U+0217", << "U+0216" >> >>,
      << "U+0219", << "U+0218" >> >>,
      << "U+021B", << "U+021A" >> >>,
      << "U+021D", << "U+021C" >> >>,
      << "U+021F", << "U+021E" >> >>,
      << "U+0223", << "U+0222" >> >>,
      << "U+0225", << "U+0224" >> >>,
      << "U+0227", << "U+0226" >> >>,
      << "U+0229", << "U+0228" >> >>,
      << "U+022B", << "U+022A" >> >>,
      << "U+022D", << "U+022C" >> >>,
      << "U+022F", << "U+022E" >> >>,
      << "U+0231", << "U+0230" >> >>,
      << "U+0233", << "U+0232" >> >>,
      << "U+023C", << "U+023B" >> >>,
      << "U+023F", << "U+2C7E" >> >>,
      << "U+0240", << "U+2C7F" >> >>,
      << "U+0242", << "U+0241" >> >>,
      << "U+0247", << "U+0246" >> >>,
      << "U+0249", << "U+0248" >> >>,
      << "U+024B", << "U+024A" >> >>,
      << "U+024D", << "U+024C" >> >>,
      << "U+024F", << "U+024E" >> >>,
      << "U+0250", << "U+2C6F" >> >>,
      << "U+0251", << "U+2C6D" >> >>,
      << "U+0252", << "U+2C70" >> >>,
      << "U+0253", << "U+0181" >> >>,
      << "U+0254", << "U+0186" >> >>,
      << "U+0256", << "U+0189" >> >>,
      << "U+0257", << "U+018A" >> >>,
      << "U+0259", << "U+018F" >> >>,
      << "U+025B", << "U+0190" >> >>,
      << "U+025C", << "U+A7AB" >> >>,
      << "U+0260", << "U+0193" >> >>,
      << "U+0261", << "U+A7AC" >> >>,
      << "U+0263", << "U+0194" >> >>,
      << "U+0264", << "U+A7CB" >> >>,
      << "U+0265", << "U+A78D" >> >>,
      << "U+0266", << "U+A7AA" >> >>,
      << "U+0268", << "U+0197" >> >>,
      << "U+0269", << "U+0196" >> >>,
      << "U+026A", << "U+A7AE" >> >>,
      << "U+026B", << "U+2C62" >> >>,
      << "U+026C", << "U+A7AD" >> >>,
      << "U+026F", << "U+019C" >> >>,
      << "U+0271", << "U+2C6E" >> >>,
      << "U+0272", << "U+019D" >> >>,
      << "U+0275", << "U+019F" >> >>,
      << "U+027D", << "U+2C64" >> >>,
      << "U+0280", << "U+01A6" >> >>,
      << "U+0282", << "U+A7C5" >> >>,
      << "U+0283", << "U+01A9" >> >>,
      << "U+0287", << "U+A7B1" >> >>,
      << "U+0288", << "U+01AE" >> >>,
      << "U+0289", << "U+0244" >> >>,
      << "U+028A", << "U+01B1" >> >>,
      << "U+028B", << "U+01B2" >> >>,
      << "U+028C", << "U+0245" >> >>,
      << "U+0292", << "U+01B7" >> >>,
      << "U+029D", << "U+A7B2" >> >>,
      << "U+029E", << "U+A7B0" >> >>,
      << "U+0345", << "U+0399" >> >>,
      << "U+0371", << "U+0370" >> >>,
      << "U+0373", << "U+0372" >> >>,
      << "U+0377", << "U+0376" >> >>,
      << "U+037B", << "U+03FD" >> >>,
      << "U+037C", << "U+03FE" >> >>,
      << "U+037D", << "U+03FF" >> >>,
      << "U+0390", << "U+0399", "U+0308", "U+0301" >> >>,
      << "U+03AC", << "U+0386" >> >>,
      << "U+03AD", << "U+0388" >> >>,
      << "U+03AE", << "U+0389" >> >>,
      << "U+03AF", << "U+038A" >> >>,
      << "U+03B0", << "U+03A5", "U+0308", "U+0301" >> >>,
      << "U+03B1", << "U+0391" >> >>,
      << "U+03B2", << "U+0392" >> >>,
      << "U+03B3", << "U+0393" >> >>,
      << "U+03B4", << "U+0394" >> >>,
      << "U+03B5", << "U+0395" >> >>,
      << "U+03B6", << "U+0396" >> >>,
      << "U+03B7", << "U+0397" >> >>,
      << "U+03B8", << "U+0398" >> >>,
      << "U+03B9", << "U+0399" >> >>,
      << "U+03BA", << "U+039A" >> >>,
      << "U+03BB", << "U+039B" >> >>,
      << "U+03BC", << "U+039C" >> >>,
      << "U+03BD", << "U+039D" >> >>,
      << "U+03BE", << "U+039E" >> >>,
      << "U+03BF", << "U+039F" >> >>,
      << "U+03C0", << "U+03A0" >> >>,
      << "U+03C1", << "U+03A1" >> >>,
      << "U+03C2", << "U+03A3" >> >>,
      << "U+03C3", << "U+03A3" >> >>,
      << "U+03C4", << "U+03A4" >> >>,
      << "U+03C5", << "U+03A5" >> >>,
      << "U+03C6", << "U+03A6" >> >>,
      << "U+03C7", << "U+03A7" >> >>,
      << "U+03C8", << "U+03A8" >> >>,
      << "U+03C9", << "U+03A9" >> >>,
      << "U+03CA", << "U+03AA" >> >>,
      << "U+03CB", << "U+03AB" >> >>,
      << "U+03CC", << "U+038C" >> >>,
      << "U+03CD", << "U+038E" >> >>,
      << "U+03CE", << "U+038F" >> >>,
      << "U+03D0", << "U+0392" >> >>,
      << "U+03D1", << "U+0398" >> >>,
      << "U+03D5", << "U+03A6" >> >>,
      << "U+03D6", << "U+03A0" >> >>,
      << "U+03D7", << "U+03CF" >> >>,
      << "U+03D9", << "U+03D8" >> >>,
      << "U+03DB", << "U+03DA" >> >>,
      << "U+03DD", << "U+03DC" >> >>,
      << "U+03DF", << "U+03DE" >> >>,
      << "U+03E1", << "U+03E0" >> >>,
      << "U+03E3", << "U+03E2" >> >>,
      << "U+03E5", << "U+03E4" >> >>,
      << "U+03E7", << "U+03E6" >> >>,
      << "U+03E9", << "U+03E8" >> >>,
      << "U+03EB", << "U+03EA" >> >>,
      << "U+03ED", << "U+03EC" >> >>,
      << "U+03EF", << "U+03EE" >> >>,
      << "U+03F0", << "U+039A" >> >>,
      << "U+03F1", << "U+03A1" >> >>,
      << "U+03F2", << "U+03F9" >> >>,
      << "U+03F3", << "U+037F" >> >>,
      << "U+03F5", << "U+0395" >> >>,
      << "U+03F8", << "U+03F7" >> >>,
      << "U+03FB", << "U+03FA" >> >>,
      << "U+0430", << "U+0410" >> >>,
      << "U+0431", << "U+0411" >> >>,
      << "U+0432", << "U+0412" >> >>,
      << "U+0433", << "U+0413" >> >>,
      << "U+0434", << "U+0414" >> >>,
      << "U+0435", << "U+0415" >> >>,
      << "U+0436", << "U+0416" >> >>,
      << "U+0437", << "U+0417" >> >>,
      << "U+0438", << "U+0418" >> >>,
      << "U+0439", << "U+0419" >> >>,
      << "U+043A", << "U+041A" >> >>,
      << "U+043B", << "U+041B" >> >>,
      << "U+043C", << "U+041C" >> >>,
      << "U+043D", << "U+041D" >> >>,
      << "U+043E", << "U+041E" >> >>,
      << "U+043F", << "U+041F" >> >>,
      << "U+0440", << "U+0420" >> >>,
      << "U+0441", << "U+0421" >> >>,
      << "U+0442", << "U+0422" >> >>,
      << "U+0443", << "U+0423" >> >>,
      << "U+0444", << "U+0424" >> >>,
      << "U+0445", << "U+0425" >> >>,
      << "U+0446", << "U+0426" >> >>,
      << "U+0447", << "U+0427" >> >>,
      << "U+0448", << "U+0428" >> >>,
      << "U+0449", << "U+0429" >> >>,
      << "U+044A", << "U+042A" >> >>,
      << "U+044B", << "U+042B" >> >>,
      << "U+044C", << "U+042C" >> >>,
      << "U+044D", << "U+042D" >> >>,
      << "U+044E", << "U+042E" >> >>,
      << "U+044F", << "U+042F" >> >>,
      << "U+0450", << "U+0400" >> >>,
      << "U+0451", << "U+0401" >> >>,
      << "U+0452", << "U+0402" >> >>,
      << "U+0453", << "U+0403" >> >>,
      << "U+0454", << "U+0404" >> >>,
      << "U+0455", << "U+0405" >> >>,
      << "U+0456", << "U+0406" >> >>,
      << "U+0457", << "U+0407" >> >>,
      << "U+0458", << "U+0408" >> >>,
      << "U+0459", << "U+0409" >> >>,
      << "U+045A", << "U+040A" >> >>,
      << "U+045B", << "U+040B" >> >>,
      << "U+045C", << "U+040C" >> >>,
      << "U+045D", << "U+040D" >> >>,
      << "U+045E", << "U+040E" >> >>,
      << "U+045F", << "U+040F" >> >>,
      << "U+0461", << "U+0460" >> >>,
      << "U+0463", << "U+0462" >> >>,
      << "U+0465", << "U+0464" >> >>,
      << "U+0467", << "U+0466" >> >>,
      << "U+0469", << "U+0468" >> >>,
      << "U+046B", << "U+046A" >> >>,
      << "U+046D", << "U+046C" >> >>,
      << "U+046F", << "U+046E" >> >>,
      << "U+0471", << "U+0470" >> >>,
      << "U+0473", << "U+0472" >> >>,
      << "U+0475", << "U+0474" >> >>,
      << "U+0477", << "U+0476" >> >>,
      << "U+0479", << "U+0478" >> >>,
      << "U+047B", << "U+047A" >> >>,
      << "U+047D", << "U+047C" >> >>,
      << "U+047F", << "U+047E" >> >>,
      << "U+0481", << "U+0480" >> >>,
      << "U+048B", << "U+048A" >> >>,
      << "U+048D", << "U+048C" >> >>,
      << "U+048F", << "U+048E" >> >>,
      << "U+0491", << "U+0490" >> >>,
      << "U+0493", << "U+0492" >> >>,
      << "U+0495", << "U+0494" >> >>,
      << "U+0497", << "U+0496" >> >>,
      << "U+0499", << "U+0498" >> >>,
      << "U+049B", << "U+049A" >> >>,
      << "U+049D", << "U+049C" >> >>,
      << "U+049F", << "U+049E" >> >>,
      << "U+04A1", << "U+04A0" >> >>,
      << "U+04A3", << "U+04A2" >> >>,
      << "U+04A5", << "U+04A4" >> >>,
      << "U+04A7", << "U+04A6" >> >>,
      << "U+04A9", << "U+04A8" >> >>,
      << "U+04AB", << "U+04AA" >> >>,
      << "U+04AD", << "U+04AC" >> >>,
      << "U+04AF", << "U+04AE" >> >>,
      << "U+04B1", << "U+04B0" >> >>,
      << "U+04B3", << "U+04B2" >> >>,
      << "U+04B5", << "U+04B4" >> >>,
      << "U+04B7", << "U+04B6" >> >>,
      << "U+04B9", << "U+04B8" >> >>,
      << "U+04BB", << "U+04BA" >> >>,
      << "U+04BD", << "U+04BC" >> >>,
      << "U+04BF", << "U+04BE" >> >>,
      << "U+04C2", << "U+04C1" >> >>,
      << "U+04C4", << "U+04C3" >> >>,
      << "U+04C6", << "U+04C5" >> >>,
      << "U+04C8", << "U+04C7" >> >>,
      << "U+04CA", << "U+04C9" >> >>,
      << "U+04CC", << "U+04CB" >> >>,
      << "U+04CE", << "U+04CD" >> >>,
      << "U+04CF", << "U+04C0" >> >>,
      << "U+04D1", << "U+04D0" >> >>,
      << "U+04D3", << "U+04D2" >> >>,
      << "U+04D5", << "U+04D4" >> >>,
      << "U+04D7", << "U+04D6" >> >>,
      << "U+04D9", << "U+04D8" >> >>,
      << "U+04DB", << "U+04DA" >> >>,
      << "U+04DD", << "U+04DC" >> >>,
      << "U+04DF", << "U+04DE" >> >>,
      << "U+04E1", << "U+04E0" >> >>,
      << "U+04E3", << "U+04E2" >> >>,
      << "U+04E5", << "U+04E4" >> >>,
      << "U+04E7", << "U+04E6" >> >>,
      << "U+04E9", << "U+04E8" >> >>,
      << "U+04EB", << "U+04EA" >> >>,
      << "U+04ED", << "U+04EC" >> >>,
      << "U+04EF", << "U+04EE" >> >>,
      << "U+04F1", << "U+04F0" >> >>,
      << "U+04F3", << "U+04F2" >> >>,
      << "U+04F5", << "U+04F4" >> >>,
      << "U+04F7", << "U+04F6" >> >>,
      << "U+04F9", << "U+04F8" >> >>,
      << "U+04FB", << "U+04FA" >> >>,
      << "U+04FD", << "U+04FC" >> >>,
      << "U+04FF", << "U+04FE" >> >>,
      << "U+0501", << "U+0500" >> >>,
      << "U+0503", << "U+0502" >> >>,
      << "U+0505", << "U+0504" >> >>,
      << "U+0507", << "U+0506" >> >>,
      << "U+0509", << "U+0508" >> >>,
      << "U+050B", << "U+050A" >> >>,
      << "U+050D", << "U+050C" >> >>,
      << "U+050F", << "U+050E" >> >>,
      << "U+0511", << "U+0510" >> >>,
      << "U+0513", << "U+0512" >> >>,
      << "U+0515", << "U+0514" >> >>,
      << "U+0517", << "U+0516" >> >>,
      << "U+0519", << "U+0518" >> >>,
      << "U+051B", << "U+051A" >> >>,
      << "U+051D", << "U+051C" >> >>,
      << "U+051F", << "U+051E" >> >>,
      << "U+0521", << "U+0520" >> >>,
      << "U+0523", << "U+0522" >> >>,
      << "U+0525", << "U+0524" >> >>,
      << "U+0527", << "U+0526" >> >>,
      << "U+0529", << "U+0528" >> >>,
      << "U+052B", << "U+052A" >> >>,
      << "U+052D", << "U+052C" >> >>,
      << "U+052F", << "U+052E" >> >>,
      << "U+0561", << "U+0531" >> >>,
      << "U+0562", << "U+0532" >> >>,
      << "U+0563", << "U+0533" >> >>,
      << "U+0564", << "U+0534" >> >>,
      << "U+0565", << "U+0535" >> >>,
      << "U+0566", << "U+0536" >> >>,
      << "U+0567", << "U+0537" >> >>,
      << "U+0568", << "U+0538" >> >>,
      << "U+0569", << "U+0539" >> >>,
      << "U+056A", << "U+053A" >> >>,
      << "U+056B", << "U+053B" >> >>,
      << "U+056C", << "U+053C" >> >>,
      << "U+056D", << "U+053D" >> >>,
      << "U+056E", << "U+053E" >> >>,
      << "U+056F", << "U+053F" >> >>,
      << "U+0570", << "U+0540" >> >>,
      << "U+0571", << "U+0541" >> >>,
      << "U+0572", << "U+0542" >> >>,
      << "U+0573", << "U+0543" >> >>,
      << "U+0574", << "U+0544" >> >>,
      << "U+0575", << "U+0545" >> >>,
      << "U+0576", << "U+0546" >> >>,
      << "U+0577", << "U+0547" >> >>,
      << "U+0578", << "U+0548" >> >>,
      << "U+0579", << "U+0549" >> >>,
      << "U+057A", << "U+054A" >> >>,
      << "U+057B", << "U+054B" >> >>,
      << "U+057C", << "U+054C" >> >>,
      << "U+057D", << "U+054D" >> >>,
      << "U+057E", << "U+054E" >> >>,
      << "U+057F", << "U+054F" >> >>,
      << "U+0580", << "U+0550" >> >>,
      << "U+0581", << "U+0551" >> >>,
      << "U+0582", << "U+0552" >> >>,
      << "U+0583", << "U+0553" >> >>,
      << "U+0584", << "U+0554" >> >>,
      << "U+0585", << "U+0555" >> >>,
      << "U+0586", << "U+0556" >> >>,
      << "U+0587", << "U+0535", "U+0552" >> >>,
      << "U+10D0", << "U+1C90" >> >>,
      << "U+10D1", << "U+1C91" >> >>,
      << "U+10D2", << "U+1C92" >> >>,
      << "U+10D3", << "U+1C93" >> >>,
      << "U+10D4", << "U+1C94" >> >>,
      << "U+10D5", << "U+1C95" >> >>,
      << "U+10D6", << "U+1C96" >> >>,
      << "U+10D7", << "U+1C97" >> >>,
      << "U+10D8", << "U+1C98" >> >>,
      << "U+10D9", << "U+1C99" >> >>,
      << "U+10DA", << "U+1C9A" >> >>,
      << "U+10DB", << "U+1C9B" >> >>,
      << "U+10DC", << "U+1C9C" >> >>,
      << "U+10DD", << "U+1C9D" >> >>,
      << "U+10DE", << "U+1C9E" >> >>,
      << "U+10DF", << "U+1C9F" >> >>,
      << "U+10E0", << "U+1CA0" >> >>,
      << "U+10E1", << "U+1CA1" >> >>,
      << "U+10E2", << "U+1CA2" >> >>,
      << "U+10E3", << "U+1CA3" >> >>,
      << "U+10E4", << "U+1CA4" >> >>,
      << "U+10E5", << "U+1CA5" >> >>,
      << "U+10E6", << "U+1CA6" >> >>,
      << "U+10E7", << "U+1CA7" >> >>,
      << "U+10E8", << "U+1CA8" >> >>,
      << "U+10E9", << "U+1CA9" >> >>,
      << "U+10EA", << "U+1CAA" >> >>,
      << "U+10EB", << "U+1CAB" >> >>,
      << "U+10EC", << "U+1CAC" >> >>,
      << "U+10ED", << "U+1CAD" >> >>,
      << "U+10EE", << "U+1CAE" >> >>,
      << "U+10EF", << "U+1CAF" >> >>,
      << "U+10F0", << "U+1CB0" >> >>,
      << "U+10F1", << "U+1CB1" >> >>,
      << "U+10F2", << "U+1CB2" >> >>,
      << "U+10F3", << "U+1CB3" >> >>,
      << "U+10F4", << "U+1CB4" >> >>,
      << "U+10F5", << "U+1CB5" >> >>,
      << "U+10F6", << "U+1CB6" >> >>,
      << "U+10F7", << "U+1CB7" >> >>,
      << "U+10F8", << "U+1CB8" >> >>,
      << "U+10F9", << "U+1CB9" >> >>,
      << "U+10FA", << "U+1CBA" >> >>,
      << "U+10FD", << "U+1CBD" >> >>,
      << "U+10FE", << "U+1CBE" >> >>,
      << "U+10FF", << "U+1CBF" >> >>,
      << "U+13F8", << "U+13F0" >> >>,
      << "U+13F9", << "U+13F1" >> >>,
      << "U+13FA", << "U+13F2" >> >>,
      << "U+13FB", << "U+13F3" >> >>,
      << "U+13FC", << "U+13F4" >> >>,
      << "U+13FD", << "U+13F5" >> >>,
      << "U+1C80", << "U+0412" >> >>,
      << "U+1C81", << "U+0414" >> >>,
      << "U+1C82", << "U+041E" >> >>,
      << "U+1C83", << "U+0421" >> >>,
      << "U+1C84", << "U+0422" >> >>,
      << "U+1C85", << "U+0422" >> >>,
      << "U+1C86", << "U+042A" >> >>,
      << "U+1C87", << "U+0462" >> >>,
      << "U+1C88", << "U+A64A" >> >>,
      << "U+1C8A", << "U+1C89" >> >>,
      << "U+1D79", << "U+A77D" >> >>,
      << "U+1D7D", << "U+2C63" >> >>,
      << "U+1D8E", << "U+A7C6" >> >>,
      << "U+1E01", << "U+1E00" >> >>,
      << "U+1E03", << "U+1E02" >> >>,
      << "U+1E05", << "U+1E04" >> >>,
      << "U+1E07", << "U+1E06" >> >>,
      << "U+1E09", << "U+1E08" >> >>,
      << "U+1E0B", << "U+1E0A" >> >>,
      << "U+1E0D", << "U+1E0C" >> >>,
      << "U+1E0F", << "U+1E0E" >> >>,
      << "U+1E11", << "U+1E10" >> >>,
      << "U+1E13", << "U+1E12" >> >>,
      << "U+1E15", << "U+1E14" >> >>,
      << "U+1E17", << "U+1E16" >> >>,
      << "U+1E19", << "U+1E18" >> >>,
      << "U+1E1B", << "U+1E1A" >> >>,
      << "U+1E1D", << "U+1E1C" >> >>,
      << "U+1E1F", << "U+1E1E" >> >>,
      << "U+1E21", << "U+1E20" >> >>,
      << "U+1E23", << "U+1E22" >> >>,
      << "U+1E25", << "U+1E24" >> >>,
      << "U+1E27", << "U+1E26" >> >>,
      << "U+1E29", << "U+1E28" >> >>,
      << "U+1E2B", << "U+1E2A" >> >>,
      << "U+1E2D", << "U+1E2C" >> >>,
      << "U+1E2F", << "U+1E2E" >> >>,
      << "U+1E31", << "U+1E30" >> >>,
      << "U+1E33", << "U+1E32" >> >>,
      << "U+1E35", << "U+1E34" >> >>,
      << "U+1E37", << "U+1E36" >> >>,
      << "U+1E39", << "U+1E38" >> >>,
      << "U+1E3B", << "U+1E3A" >> >>,
      << "U+1E3D", << "U+1E3C" >> >>,
      << "U+1E3F", << "U+1E3E" >> >>,
      << "U+1E41", << "U+1E40" >> >>,
      << "U+1E43", << "U+1E42" >> >>,
      << "U+1E45", << "U+1E44" >> >>,
      << "U+1E47", << "U+1E46" >> >>,
      << "U+1E49", << "U+1E48" >> >>,
      << "U+1E4B", << "U+1E4A" >> >>,
      << "U+1E4D", << "U+1E4C" >> >>,
      << "U+1E4F", << "U+1E4E" >> >>,
      << "U+1E51", << "U+1E50" >> >>,
      << "U+1E53", << "U+1E52" >> >>,
      << "U+1E55", << "U+1E54" >> >>,
      << "U+1E57", << "U+1E56" >> >>,
      << "U+1E59", << "U+1E58" >> >>,
      << "U+1E5B", << "U+1E5A" >> >>,
      << "U+1E5D", << "U+1E5C" >> >>,
      << "U+1E5F", << "U+1E5E" >> >>,
      << "U+1E61", << "U+1E60" >> >>,
      << "U+1E63", << "U+1E62" >> >>,
      << "U+1E65", << "U+1E64" >> >>,
      << "U+1E67", << "U+1E66" >> >>,
      << "U+1E69", << "U+1E68" >> >>,
      << "U+1E6B", << "U+1E6A" >> >>,
      << "U+1E6D", << "U+1E6C" >> >>,
      << "U+1E6F", << "U+1E6E" >> >>,
      << "U+1E71", << "U+1E70" >> >>,
      << "U+1E73", << "U+1E72" >> >>,
      << "U+1E75", << "U+1E74" >> >>,
      << "U+1E77", << "U+1E76" >> >>,
      << "U+1E79", << "U+1E78" >> >>,
      << "U+1E7B", << "U+1E7A" >> >>,
      << "U+1E7D", << "U+1E7C" >> >>,
      << "U+1E7F", << "U+1E7E" >> >>,
      << "U+1E81", << "U+1E80" >> >>,
      << "U+1E83", << "U+1E82" >> >>,
      << "U+1E85", << "U+1E84" >> >>,
      << "U+1E87", << "U+1E86" >> >>,
      << "U+1E89", << "U+1E88" >> >>,
      << "U+1E8B", << "U+1E8A" >> >>,
      << "U+1E8D", << "U+1E8C" >> >>,
      << "U+1E8F", << "U+1E8E" >> >>,
      << "U+1E91", << "U+1E90" >> >>,
      << "U+1E93", << "U+1E92" >> >>,
      << "U+1E95", << "U+1E94" >> >>,
      << "U+1E96", << "H", "U+0331" >> >>,
      << "U+1E97", << "T", "U+0308" >> >>,
      << "U+1E98", << "W", "U+030A" >> >>,
      << "U+1E99", << "Y", "U+030A" >> >>,
      << "U+1E9A", << "A", "U+02BE" >> >>,
      << "U+1E9B", << "U+1E60" >> >>,
      << "U+1EA1", << "U+1EA0" >> >>,
      << "U+1EA3", << "U+1EA2" >> >>,
      << "U+1EA5", << "U+1EA4" >> >>,
      << "U+1EA7", << "U+1EA6" >> >>,
      << "U+1EA9", << "U+1EA8" >> >>,
      << "U+1EAB", << "U+1EAA" >> >>,
      << "U+1EAD", << "U+1EAC" >> >>,
      << "U+1EAF", << "U+1EAE" >> >>,
      << "U+1EB1", << "U+1EB0" >> >>,
      << "U+1EB3", << "U+1EB2" >> >>,
      << "U+1EB5", << "U+1EB4" >> >>,
      << "U+1EB7", << "U+1EB6" >> >>,
      << "U+1EB9", << "U+1EB8" >> >>,
      << "U+1EBB", << "U+1EBA" >> >>,
      << "U+1EBD", << "U+1EBC" >> >>,
      << "U+1EBF", << "U+1EBE" >> >>,
      << "U+1EC1", << "U+1EC0" >> >>,
      << "U+1EC3", << "U+1EC2" >> >>,
      << "U+1EC5", << "U+1EC4" >> >>,
      << "U+1EC7", << "U+1EC6" >> >>,
      << "U+1EC9", << "U+1EC8" >> >>,
      << "U+1ECB", << "U+1ECA" >> >>,
      << "U+1ECD", << "U+1ECC" >> >>,
      << "U+1ECF", << "U+1ECE" >> >>,
      << "U+1ED1", << "U+1ED0" >> >>,
      << "U+1ED3", << "U+1ED2" >> >>,
      << "U+1ED5", << "U+1ED4" >> >>,
      << "U+1ED7", << "U+1ED6" >> >>,
      << "U+1ED9", << "U+1ED8" >> >>,
      << "U+1EDB", << "U+1EDA" >> >>,
      << "U+1EDD", << "U+1EDC" >> >>,
      << "U+1EDF", << "U+1EDE" >> >>,
      << "U+1EE1", << "U+1EE0" >> >>,
      << "U+1EE3", << "U+1EE2" >> >>,
      << "U+1EE5", << "U+1EE4" >> >>,
      << "U+1EE7", << "U+1EE6" >> >>,
      << "U+1EE9", << "U+1EE8" >> >>,
      << "U+1EEB", << "U+1EEA" >> >>,
      << "U+1EED", << "U+1EEC" >> >>,
      << "U+1EEF", << "U+1EEE" >> >>,
      << "U+1EF1", << "U+1EF0" >> >>,
      << "U+1EF3", << "U+1EF2" >> >>,
      << "U+1EF5", << "U+1EF4" >> >>,
      << "U+1EF7", << "U+1EF6" >> >>,
      << "U+1EF9", << "U+1EF8" >> >>,
      << "U+1EFB", << "U+1EFA" >> >>,
      << "U+1EFD", << "U+1EFC" >> >>,
      << "U+1EFF", << "U+1EFE" >> >>,
      << "U+1F00", << "U+1F08" >> >>,
      << "U+1F01", << "U+1F09" >> >>,
      << "U+1F02", << "U+1F0A" >> >>,
      << "U+1F03", << "U+1F0B" >> >>,
      << "U+1F04", << "U+1F0C" >> >>,
      << "U+1F05", << "U+1F0D" >> >>,
      << "U+1F06", << "U+1F0E" >> >>,
      << "U+1F07", << "U+1F0F" >> >>,
      << "U+1F10", << "U+1F18" >> >>,
      << "U+1F11", << "U+1F19" >> >>,
      << "U+1F12", << "U+1F1A" >> >>,
      << "U+1F13", << "U+1F1B" >> >>,
      << "U+1F14", << "U+1F1C" >> >>,
      << "U+1F15", << "U+1F1D" >> >>,
      << "U+1F20", << "U+1F28" >> >>,
      << "U+1F21", << "U+1F29" >> >>,
      << "U+1F22", << "U+1F2A" >> >>,
      << "U+1F23", << "U+1F2B" >> >>,
      << "U+1F24", << "U+1F2C" >> >>,
      << "U+1F25", << "U+1F2D" >> >>,
      << "U+1F26", << "U+1F2E" >> >>,
      << "U+1F27", << "U+1F2F" >> >>,
      << "U+1F30", << "U+1F38" >> >>,
      << "U+1F31", << "U+1F39" >> >>,
      << "U+1F32", << "U+1F3A" >> >>,
      << "U+1F33", << "U+1F3B" >> >>,
      << "U+1F34", << "U+1F3C" >> >>,
      << "U+1F35", << "U+1F3D" >> >>,
      << "U+1F36", << "U+1F3E" >> >>,
      << "U+1F37", << "U+1F3F" >> >>,
      << "U+1F40", << "U+1F48" >> >>,
      << "U+1F41", << "U+1F49" >> >>,
      << "U+1F42", << "U+1F4A" >> >>,
      << "U+1F43", << "U+1F4B" >> >>,
      << "U+1F44", << "U+1F4C" >> >>,
      << "U+1F45", << "U+1F4D" >> >>,
      << "U+1F50", << "U+03A5", "U+0313" >> >>,
      << "U+1F51", << "U+1F59" >> >>,
      << "U+1F52", << "U+03A5", "U+0313", "U+0300" >> >>,
      << "U+1F53", << "U+1F5B" >> >>,
      << "U+1F54", << "U+03A5", "U+0313", "U+0301" >> >>,
      << "U+1F55", << "U+1F5D" >> >>,
      << "U+1F56", << "U+03A5", "U+0313", "U+0342" >> >>,
      << "U+1F57", << "U+1F5F" >> >>,
      << "U+1F60", << "U+1F68" >> >>,
      << "U+1F61", << "U+1F69" >> >>,
      << "U+1F62", << "U+1F6A" >> >>,
      << "U+1F63", << "U+1F6B" >> >>,
      << "U+1F64", << "U+1F6C" >> >>,
      << "U+1F65", << "U+1F6D" >> >>,
      << "U+1F66", << "U+1F6E" >> >>,
      << "U+1F67", << "U+1F6F" >> >>,
      << "U+1F70", << "U+1FBA" >> >>,
      << "U+1F71", << "U+1FBB" >> >>,
      << "U+1F72", << "U+1FC8" >> >>,
      << "U+1F73", << "U+1FC9" >> >>,
      << "U+1F74", << "U+1FCA" >> >>,
      << "U+1F75", << "U+1FCB" >> >>,
      << "U+1F76", << "U+1FDA" >> >>,
      << "U+1F77", << "U+1FDB" >> >>,
      << "U+1F78", << "U+1FF8" >> >>,
      << "U+1F79", << "U+1FF9" >> >>,
      << "U+1F7A", << "U+1FEA" >> >>,
      << "U+1F7B", << "U+1FEB" >> >>,
      << "U+1F7C", << "U+1FFA" >> >>,
      << "U+1F7D", << "U+1FFB" >> >>,
      << "U+1F80", << "U+1F08", "U+0399" >> >>,
      << "U+1F81", << "U+1F09", "U+0399" >> >>,
      << "U+1F82", << "U+1F0A", "U+0399" >> >>,
      << "U+1F83", << "U+1F0B", "U+0399" >> >>,
      << "U+1F84", << "U+1F0C", "U+0399" >> >>,
      << "U+1F85", << "U+1F0D", "U+0399" >> >>,
      << "U+1F86", << "U+1F0E", "U+0399" >> >>,
      << "U+1F87", << "U+1F0F", "U+0399" >> >>,
      << "U+1F88", << "U+1F08", "U+0399" >> >>,
      << "U+1F89", << "U+1F09", "U+0399" >> >>,
      << "U+1F8A", << "U+1F0A", "U+0399" >> >>,
      << "U+1F8B", << "U+1F0B", "U+0399" >> >>,
      << "U+1F8C", << "U+1F0C", "U+0399" >> >>,
      << "U+1F8D", << "U+1F0D", "U+0399" >> >>,
      << "U+1F8E", << "U+1F0E", "U+0399" >> >>,
      << "U+1F8F", << "U+1F0F", "U+0399" >> >>,
      << "U+1F90", << "U+1F28", "U+0399" >> >>,
      << "U+1F91", << "U+1F29", "U+0399" >> >>,
      << "U+1F92", << "U+1F2A", "U+0399" >> >>,
      << "U+1F93", << "U+1F2B", "U+0399" >> >>,
      << "U+1F94", << "U+1F2C", "U+0399" >> >>,
      << "U+1F95", << "U+1F2D", "U+0399" >> >>,
      << "U+1F96", << "U+1F2E", "U+0399" >> >>,
      << "U+1F97", << "U+1F2F", "U+0399" >> >>,
      << "U+1F98", << "U+1F28", "U+0399" >> >>,
      << "U+1F99", << "U+1F29", "U+0399" >> >>,
      << "U+1F9A", << "U+1F2A", "U+0399" >> >>,
      << "U+1F9B", << "U+1F2B", "U+0399" >> >>,
      << "U+1F9C", << "U+1F2C", "U+0399" >> >>,
      << "U+1F9D", << "U+1F2D", "U+0399" >> >>,
      << "U+1F9E", << "U+1F2E", "U+0399" >> >>,
      << "U+1F9F", << "U+1F2F", "U+0399" >> >>,
      << "U+1FA0", << "U+1F68", "U+0399" >> >>,
      << "U+1FA1", << "U+1F69", "U+0399" >> >>,
      << "U+1FA2", << "U+1F6A", "U+0399" >> >>,
      << "U+1FA3", << "U+1F6B", "U+0399" >> >>,
      << "U+1FA4", << "U+1F6C", "U+0399" >> >>,
      << "U+1FA5", << "U+1F6D", "U+0399" >> >>,
      << "U+1FA6", << "U+1F6E", "U+0399" >> >>,
      << "U+1FA7", << "U+1F6F", "U+0399" >> >>,
      << "U+1FA8", << "U+1F68", "U+0399" >> >>,
      << "U+1FA9", << "U+1F69", "U+0399" >> >>,
      << "U+1FAA", << "U+1F6A", "U+0399" >> >>,
      << "U+1FAB", << "U+1F6B", "U+0399" >> >>,
      << "U+1FAC", << "U+1F6C", "U+0399" >> >>,
      << "U+1FAD", << "U+1F6D", "U+0399" >> >>,
      << "U+1FAE", << "U+1F6E", "U+0399" >> >>,
      << "U+1FAF", << "U+1F6F", "U+0399" >> >>,
      << "U+1FB0", << "U+1FB8" >> >>,
      << "U+1FB1", << "U+1FB9" >> >>,
      << "U+1FB2", << "U+1FBA", "U+0399" >> >>,
      << "U+1FB3", << "U+0391", "U+0399" >> >>,
      << "U+1FB4", << "U+0386", "U+0399" >> >>,
      << "U+1FB6", << "U+0391", "U+0342" >> >>,
      << "U+1FB7", << "U+0391", "U+0342", "U+0399" >> >>,
      << "U+1FBC", << "U+0391", "U+0399" >> >>,
      << "U+1FBE", << "U+0399" >> >>,
      << "U+1FC2", << "U+1FCA", "U+0399" >> >>,
      << "U+1FC3", << "U+0397", "U+0399" >> >>,
      << "U+1FC4", << "U+0389", "U+0399" >> >>,
      << "U+1FC6", << "U+0397", "U+0342" >> >>,
      << "U+1FC7", << "U+0397", "U+0342", "U+0399" >> >>,
      << "U+1FCC", << "U+0397", "U+0399" >> >>,
      << "U+1FD0", << "U+1FD8" >> >>,
      << "U+1FD1", << "U+1FD9" >> >>,
      << "U+1FD2", << "U+0399", "U+0308", "U+0300" >> >>,
      << "U+1FD3", << "U+0399", "U+0308", "U+0301" >> >>,
      << "U+1FD6", << "U+0399", "U+0342" >> >>,
      << "U+1FD7", << "U+0399", "U+0308", "U+0342" >> >>,
      << "U+1FE0", << "U+1FE8" >> >>,
      << "U+1FE1", << "U+1FE9" >> >>,
      << "U+1FE2", << "U+03A5", "U+0308", "U+0300" >> >>,
      << "U+1FE3", << "U+03A5", "U+0308", "U+0301" >> >>,
      << "U+1FE4", << "U+03A1", "U+0313" >> >>,
      << "U+1FE5", << "U+1FEC" >> >>,
      << "U+1FE6", << "U+03A5", "U+0342" >> >>,
      << "U+1FE7", << "U+03A5", "U+0308", "U+0342" >> >>,
      << "U+1FF2", << "U+1FFA", "U+0399" >> >>,
      << "U+1FF3", << "U+03A9", "U+0399" >> >>,
      << "U+1FF4", << "U+038F", "U+0399" >> >>,
      << "U+1FF6", << "U+03A9", "U+0342" >> >>,
      << "U+1FF7", << "U+03A9", "U+0342", "U+0399" >> >>,
      << "U+1FFC", << "U+03A9", "U+0399" >> >>,
      << "U+214E", << "U+2132" >> >>,
      << "U+2170", << "U+2160" >> >>,
      << "U+2171", << "U+2161" >> >>,
      << "U+2172", << "U+2162" >> >>,
      << "U+2173", << "U+2163" >> >>,
      << "U+2174", << "U+2164" >> >>,
      << "U+2175", << "U+2165" >> >>,
      << "U+2176", << "U+2166" >> >>,
      << "U+2177", << "U+2167" >> >>,
      << "U+2178", << "U+2168" >> >>,
      << "U+2179", << "U+2169" >> >>,
      << "U+217A", << "U+216A" >> >>,
      << "U+217B", << "U+216B" >> >>,
      << "U+217C", << "U+216C" >> >>,
      << "U+217D", << "U+216D" >> >>,
      << "U+217E", << "U+216E" >> >>,
      << "U+217F", << "U+216F" >> >>,
      << "U+2184", << "U+2183" >> >>,
      << "U+24D0", << "U+24B6" >> >>,
      << "U+24D1", << "U+24B7" >> >>,
      << "U+24D2", << "U+24B8" >> >>,
      << "U+24D3", << "U+24B9" >> >>,
      << "U+24D4", << "U+24BA" >> >>,
      << "U+24D5", << "U+24BB" >> >>,
      << "U+24D6", << "U+24BC" >> >>,
      << "U+24D7", << "U+24BD" >> >>,
      << "U+24D8", << "U+24BE" >> >>,
      << "U+24D9", << "U+24BF" >> >>,
      << "U+24DA", << "U+24C0" >> >>,
      << "U+24DB", << "U+24C1" >> >>,
      << "U+24DC", << "U+24C2" >> >>,
      << "U+24DD", << "U+24C3" >> >>,
      << "U+24DE", << "U+24C4" >> >>,
      << "U+24DF", << "U+24C5" >> >>,
      << "U+24E0", << "U+24C6" >> >>,
      << "U+24E1", << "U+24C7" >> >>,
      << "U+24E2", << "U+24C8" >> >>,
      << "U+24E3", << "U+24C9" >> >>,
      << "U+24E4", << "U+24CA" >> >>,
      << "U+24E5", << "U+24CB" >> >>,
      << "U+24E6", << "U+24CC" >> >>,
      << "U+24E7", << "U+24CD" >> >>,
      << "U+24E8", << "U+24CE" >> >>,
      << "U+24E9", << "U+24CF" >> >>,
      << "U+2C30", << "U+2C00" >> >>,
      << "U+2C31", << "U+2C01" >> >>,
      << "U+2C32", << "U+2C02" >> >>,
      << "U+2C33", << "U+2C03" >> >>,
      << "U+2C34", << "U+2C04" >> >>,
      << "U+2C35", << "U+2C05" >> >>,
      << "U+2C36", << "U+2C06" >> >>,
      << "U+2C37", << "U+2C07" >> >>,
      << "U+2C38", << "U+2C08" >> >>,
      << "U+2C39", << "U+2C09" >> >>,
      << "U+2C3A", << "U+2C0A" >> >>,
      << "U+2C3B", << "U+2C0B" >> >>,
      << "U+2C3C", << "U+2C0C" >> >>,
      << "U+2C3D", << "U+2C0D" >> >>,
      << "U+2C3E", << "U+2C0E" >> >>,
      << "U+2C3F", << "U+2C0F" >> >>,
      << "U+2C40", << "U+2C10" >> >>,
      << "U+2C41", << "U+2C11" >> >>,
      << "U+2C42", << "U+2C12" >> >>,
      << "U+2C43", << "U+2C13" >> >>,
      << "U+2C44", << "U+2C14" >> >>,
      << "U+2C45", << "U+2C15" >> >>,
      << "U+2C46", << "U+2C16" >> >>,
      << "U+2C47", << "U+2C17" >> >>,
      << "U+2C48", << "U+2C18" >> >>,
      << "U+2C49", << "U+2C19" >> >>,
      << "U+2C4A", << "U+2C1A" >> >>,
      << "U+2C4B", << "U+2C1B" >> >>,
      << "U+2C4C", << "U+2C1C" >> >>,
      << "U+2C4D", << "U+2C1D" >> >>,
      << "U+2C4E", << "U+2C1E" >> >>,
      << "U+2C4F", << "U+2C1F" >> >>,
      << "U+2C50", << "U+2C20" >> >>,
      << "U+2C51", << "U+2C21" >> >>,
      << "U+2C52", << "U+2C22" >> >>,
      << "U+2C53", << "U+2C23" >> >>,
      << "U+2C54", << "U+2C24" >> >>,
      << "U+2C55", << "U+2C25" >> >>,
      << "U+2C56", << "U+2C26" >> >>,
      << "U+2C57", << "U+2C27" >> >>,
      << "U+2C58", << "U+2C28" >> >>,
      << "U+2C59", << "U+2C29" >> >>,
      << "U+2C5A", << "U+2C2A" >> >>,
      << "U+2C5B", << "U+2C2B" >> >>,
      << "U+2C5C", << "U+2C2C" >> >>,
      << "U+2C5D", << "U+2C2D" >> >>,
      << "U+2C5E", << "U+2C2E" >> >>,
      << "U+2C5F", << "U+2C2F" >> >>,
      << "U+2C61", << "U+2C60" >> >>,
      << "U+2C65", << "U+023A" >> >>,
      << "U+2C66", << "U+023E" >> >>,
      << "U+2C68", << "U+2C67" >> >>,
      << "U+2C6A", << "U+2C69" >> >>,
      << "U+2C6C", << "U+2C6B" >> >>,
      << "U+2C73", << "U+2C72" >> >>,
      << "U+2C76", << "U+2C75" >> >>,
      << "U+2C81", << "U+2C80" >> >>,
      << "U+2C83", << "U+2C82" >> >>,
      << "U+2C85", << "U+2C84" >> >>,
      << "U+2C87", << "U+2C86" >> >>,
      << "U+2C89", << "U+2C88" >> >>,
      << "U+2C8B", << "U+2C8A" >> >>,
      << "U+2C8D", << "U+2C8C" >> >>,
      << "U+2C8F", << "U+2C8E" >> >>,
      << "U+2C91", << "U+2C90" >> >>,
      << "U+2C93", << "U+2C92" >> >>,
      << "U+2C95", << "U+2C94" >> >>,
      << "U+2C97", << "U+2C96" >> >>,
      << "U+2C99", << "U+2C98" >> >>,
      << "U+2C9B", << "U+2C9A" >> >>,
      << "U+2C9D", << "U+2C9C" >> >>,
      << "U+2C9F", << "U+2C9E" >> >>,
      << "U+2CA1", << "U+2CA0" >> >>,
      << "U+2CA3", << "U+2CA2" >> >>,
      << "U+2CA5", << "U+2CA4" >> >>,
      << "U+2CA7", << "U+2CA6" >> >>,
      << "U+2CA9", << "U+2CA8" >> >>,
      << "U+2CAB", << "U+2CAA" >> >>,
      << "U+2CAD", << "U+2CAC" >> >>,
      << "U+2CAF", << "U+2CAE" >> >>,
      << "U+2CB1", << "U+2CB0" >> >>,
      << "U+2CB3", << "U+2CB2" >> >>,
      << "U+2CB5", << "U+2CB4" >> >>,
      << "U+2CB7", << "U+2CB6" >> >>,
      << "U+2CB9", << "U+2CB8" >> >>,
      << "U+2CBB", << "U+2CBA" >> >>,
      << "U+2CBD", << "U+2CBC" >> >>,
      << "U+2CBF", << "U+2CBE" >> >>,
      << "U+2CC1", << "U+2CC0" >> >>,
      << "U+2CC3", << "U+2CC2" >> >>,
      << "U+2CC5", << "U+2CC4" >> >>,
      << "U+2CC7", << "U+2CC6" >> >>,
      << "U+2CC9", << "U+2CC8" >> >>,
      << "U+2CCB", << "U+2CCA" >> >>,
      << "U+2CCD", << "U+2CCC" >> >>,
      << "U+2CCF", << "U+2CCE" >> >>,
      << "U+2CD1", << "U+2CD0" >> >>,
      << "U+2CD3", << "U+2CD2" >> >>,
      << "U+2CD5", << "U+2CD4" >> >>,
      << "U+2CD7", << "U+2CD6" >> >>,
      << "U+2CD9", << "U+2CD8" >> >>,
      << "U+2CDB", << "U+2CDA" >> >>,
      << "U+2CDD", << "U+2CDC" >> >>,
      << "U+2CDF", << "U+2CDE" >> >>,
      << "U+2CE1", << "U+2CE0" >> >>,
      << "U+2CE3", << "U+2CE2" >> >>,
      << "U+2CEC", << "U+2CEB" >> >>,
      << "U+2CEE", << "U+2CED" >> >>,
      << "U+2CF3", << "U+2CF2" >> >>,
      << "U+2D00", << "U+10A0" >> >>,
      << "U+2D01", << "U+10A1" >> >>,
      << "U+2D02", << "U+10A2" >> >>,
      << "U+2D03", << "U+10A3" >> >>,
      << "U+2D04", << "U+10A4" >> >>,
      << "U+2D05", << "U+10A5" >> >>,
      << "U+2D06", << "U+10A6" >> >>,
      << "U+2D07", << "U+10A7" >> >>,
      << "U+2D08", << "U+10A8" >> >>,
      << "U+2D09", << "U+10A9" >> >>,
      << "U+2D0A", << "U+10AA" >> >>,
      << "U+2D0B", << "U+10AB" >> >>,
      << "U+2D0C", << "U+10AC" >> >>,
      << "U+2D0D", << "U+10AD" >> >>,
      << "U+2D0E", << "U+10AE" >> >>,
      << "U+2D0F", << "U+10AF" >> >>,
      << "U+2D10", << "U+10B0" >> >>,
      << "U+2D11", << "U+10B1" >> >>,
      << "U+2D12", << "U+10B2" >> >>,
      << "U+2D13", << "U+10B3" >> >>,
      << "U+2D14", << "U+10B4" >> >>,
      << "U+2D15", << "U+10B5" >> >>,
      << "U+2D16", << "U+10B6" >> >>,
      << "U+2D17", << "U+10B7" >> >>,
      << "U+2D18", << "U+10B8" >> >>,
      << "U+2D19", << "U+10B9" >> >>,
      << "U+2D1A", << "U+10BA" >> >>,
      << "U+2D1B", << "U+10BB" >> >>,
      << "U+2D1C", << "U+10BC" >> >>,
      << "U+2D1D", << "U+10BD" >> >>,
      << "U+2D1E", << "U+10BE" >> >>,
      << "U+2D1F", << "U+10BF" >> >>,
      << "U+2D20", << "U+10C0" >> >>,
      << "U+2D21", << "U+10C1" >> >>,
      << "U+2D22", << "U+10C2" >> >>,
      << "U+2D23", << "U+10C3" >> >>,
      << "U+2D24", << "U+10C4" >> >>,
      << "U+2D25", << "U+10C5" >> >>,
      << "U+2D27", << "U+10C7" >> >>,
      << "U+2D2D", << "U+10CD" >> >>,
      << "U+A641", << "U+A640" >> >>,
      << "U+A643", << "U+A642" >> >>,
      << "U+A645", << "U+A644" >> >>,
      << "U+A647", << "U+A646" >> >>,
      << "U+A649", << "U+A648" >> >>,
      << "U+A64B", << "U+A64A" >> >>,
      << "U+A64D", << "U+A64C" >> >>,
      << "U+A64F", << "U+A64E" >> >>,
      << "U+A651", << "U+A650" >> >>,
      << "U+A653", << "U+A652" >> >>,
      << "U+A655", << "U+A654" >> >>,
      << "U+A657", << "U+A656" >> >>,
      << "U+A659", << "U+A658" >> >>,
      << "U+A65B", << "U+A65A" >> >>,
      << "U+A65D", << "U+A65C" >> >>,
      << "U+A65F", << "U+A65E" >> >>,
      << "U+A661", << "U+A660" >> >>,
      << "U+A663", << "U+A662" >> >>,
      << "U+A665", << "U+A664" >> >>,
      << "U+A667", << "U+A666" >> >>,
      << "U+A669", << "U+A668" >> >>,
      << "U+A66B", << "U+A66A" >> >>,
      << "U+A66D", << "U+A66C" >> >>,
      << "U+A681", << "U+A680" >> >>,
      << "U+A683", << "U+A682" >> >>,
      << "U+A685", << "U+A684" >> >>,
      << "U+A687", << "U+A686" >> >>,
      << "U+A689", << "U+A688" >> >>,
      << "U+A68B", << "U+A68A" >> >>,
      << "U+A68D", << "U+A68C" >> >>,
      << "U+A68F", << "U+A68E" >> >>,
      << "U+A691", << "U+A690" >> >>,
      << "U+A693", << "U+A692" >> >>,
      << "U+A695", << "U+A694" >> >>,
      << "U+A697", << "U+A696" >> >>,
      << "U+A699", << "U+A698" >> >>,
      << "U+A69B", << "U+A69A" >> >>,
      << "U+A723", << "U+A722" >> >>,
      << "U+A725", << "U+A724" >> >>,
      << "U+A727", << "U+A726" >> >>,
      << "U+A729", << "U+A728" >> >>,
      << "U+A72B", << "U+A72A" >> >>,
      << "U+A72D", << "U+A72C" >> >>,
      << "U+A72F", << "U+A72E" >> >>,
      << "U+A733", << "U+A732" >> >>,
      << "U+A735", << "U+A734" >> >>,
      << "U+A737", << "U+A736" >> >>,
      << "U+A739", << "U+A738" >> >>,
      << "U+A73B", << "U+A73A" >> >>,
      << "U+A73D", << "U+A73C" >> >>,
      << "U+A73F", << "U+A73E" >> >>,
      << "U+A741", << "U+A740" >> >>,
      << "U+A743", << "U+A742" >> >>,
      << "U+A745", << "U+A744" >> >>,
      << "U+A747", << "U+A746" >> >>,
      << "U+A749", << "U+A748" >> >>,
      << "U+A74B", << "U+A74A" >> >>,
      << "U+A74D", << "U+A74C" >> >>,
      << "U+A74F", << "U+A74E" >> >>,
      << "U+A751", << "U+A750" >> >>,
      << "U+A753", << "U+A752" >> >>,
      << "U+A755", << "U+A754" >> >>,
      << "U+A757", << "U+A756" >> >>,
      << "U+A759", << "U+A758" >> >>,
      << "U+A75B", << "U+A75A" >> >>,
      << "U+A75D", << "U+A75C" >> >>,
      << "U+A75F", << "U+A75E" >> >>,
      << "U+A761", << "U+A760" >> >>,
      << "U+A763", << "U+A762" >> >>,
      << "U+A765", << "U+A764" >> >>,
      << "U+A767", << "U+A766" >> >>,
      << "U+A769", << "U+A768" >> >>,
      << "U+A76B", << "U+A76A" >> >>,
      << "U+A76D", << "U+A76C" >> >>,
      << "U+A76F", << "U+A76E" >> >>,
      << "U+A77A", << "U+A779" >> >>,
      << "U+A77C", << "U+A77B" >> >>,
      << "U+A77F", << "U+A77E" >> >>,
      << "U+A781", << "U+A780" >> >>,
      << "U+A783", << "U+A782" >> >>,
      << "U+A785", << "U+A784" >> >>,
      << "U+A787", << "U+A786" >> >>,
      << "U+A78C", << "U+A78B" >> >>,
      << "U+A791", << "U+A790" >> >>,
      << "U+A793", << "U+A792" >> >>,
      << "U+A794", << "U+A7C4" >> >>,
      << "U+A797", << "U+A796" >> >>,
      << "U+A799", << "U+A798" >> >>,
      << "U+A79B", << "U+A79A" >> >>,
      << "U+A79D", << "U+A79C" >> >>,
      << "U+A79F", << "U+A79E" >> >>,
      << "U+A7A1", << "U+A7A0" >> >>,
      << "U+A7A3", << "U+A7A2" >> >>,
      << "U+A7A5", << "U+A7A4" >> >>,
      << "U+A7A7", << "U+A7A6" >> >>,
      << "U+A7A9", << "U+A7A8" >> >>,
      << "U+A7B5", << "U+A7B4" >> >>,
      << "U+A7B7", << "U+A7B6" >> >>,
      << "U+A7B9", << "U+A7B8" >> >>,
      << "U+A7BB", << "U+A7BA" >> >>,
      << "U+A7BD", << "U+A7BC" >> >>,
      << "U+A7BF", << "U+A7BE" >> >>,
      << "U+A7C1", << "U+A7C0" >> >>,
      << "U+A7C3", << "U+A7C2" >> >>,
      << "U+A7C8", << "U+A7C7" >> >>,
      << "U+A7CA", << "U+A7C9" >> >>,
      << "U+A7CD", << "U+A7CC" >> >>,
      << "U+A7CF", << "U+A7CE" >> >>,
      << "U+A7D1", << "U+A7D0" >> >>,
      << "U+A7D3", << "U+A7D2" >> >>,
      << "U+A7D5", << "U+A7D4" >> >>,
      << "U+A7D7", << "U+A7D6" >> >>,
      << "U+A7D9", << "U+A7D8" >> >>,
      << "U+A7DB", << "U+A7DA" >> >>,
      << "U+A7F6", << "U+A7F5" >> >>,
      << "U+AB53", << "U+A7B3" >> >>,
      << "U+AB70", << "U+13A0" >> >>,
      << "U+AB71", << "U+13A1" >> >>,
      << "U+AB72", << "U+13A2" >> >>,
      << "U+AB73", << "U+13A3" >> >>,
      << "U+AB74", << "U+13A4" >> >>,
      << "U+AB75", << "U+13A5" >> >>,
      << "U+AB76", << "U+13A6" >> >>,
      << "U+AB77", << "U+13A7" >> >>,
      << "U+AB78", << "U+13A8" >> >>,
      << "U+AB79", << "U+13A9" >> >>,
      << "U+AB7A", << "U+13AA" >> >>,
      << "U+AB7B", << "U+13AB" >> >>,
      << "U+AB7C", << "U+13AC" >> >>,
      << "U+AB7D", << "U+13AD" >> >>,
      << "U+AB7E", << "U+13AE" >> >>,
      << "U+AB7F", << "U+13AF" >> >>,
      << "U+AB80", << "U+13B0" >> >>,
      << "U+AB81", << "U+13B1" >> >>,
      << "U+AB82", << "U+13B2" >> >>,
      << "U+AB83", << "U+13B3" >> >>,
      << "U+AB84", << "U+13B4" >> >>,
      << "U+AB85", << "U+13B5" >> >>,
      << "U+AB86", << "U+13B6" >> >>,
      << "U+AB87", << "U+13B7" >> >>,
      << "U+AB88", << "U+13B8" >> >>,
      << "U+AB89", << "U+13B9" >> >>,
      << "U+AB8A", << "U+13BA" >> >>,
      << "U+AB8B", << "U+13BB" >> >>,
      << "U+AB8C", << "U+13BC" >> >>,
      << "U+AB8D", << "U+13BD" >> >>,
      << "U+AB8E", << "U+13BE" >> >>,
      << "U+AB8F", << "U+13BF" >> >>,
      << "U+AB90", << "U+13C0" >> >>,
      << "U+AB91", << "U+13C1" >> >>,
      << "U+AB92", << "U+13C2" >> >>,
      << "U+AB93", << "U+13C3" >> >>,
      << "U+AB94", << "U+13C4" >> >>,
      << "U+AB95", << "U+13C5" >> >>,
      << "U+AB96", << "U+13C6" >> >>,
      << "U+AB97", << "U+13C7" >> >>,
      << "U+AB98", << "U+13C8" >> >>,
      << "U+AB99", << "U+13C9" >> >>,
      << "U+AB9A", << "U+13CA" >> >>,
      << "U+AB9B", << "U+13CB" >> >>,
      << "U+AB9C", << "U+13CC" >> >>,
      << "U+AB9D", << "U+13CD" >> >>,
      << "U+AB9E", << "U+13CE" >> >>,
      << "U+AB9F", << "U+13CF" >> >>,
      << "U+ABA0", << "U+13D0" >> >>,
      << "U+ABA1", << "U+13D1" >> >>,
      << "U+ABA2", << "U+13D2" >> >>,
      << "U+ABA3", << "U+13D3" >> >>,
      << "U+ABA4", << "U+13D4" >> >>,
      << "U+ABA5", << "U+13D5" >> >>,
      << "U+ABA6", << "U+13D6" >> >>,
      << "U+ABA7", << "U+13D7" >> >>,
      << "U+ABA8", << "U+13D8" >> >>,
      << "U+ABA9", << "U+13D9" >> >>,
      << "U+ABAA", << "U+13DA" >> >>,
      << "U+ABAB", << "U+13DB" >> >>,
      << "U+ABAC", << "U+13DC" >> >>,
      << "U+ABAD", << "U+13DD" >> >>,
      << "U+ABAE", << "U+13DE" >> >>,
      << "U+ABAF", << "U+13DF" >> >>,
      << "U+ABB0", << "U+13E0" >> >>,
      << "U+ABB1", << "U+13E1" >> >>,
      << "U+ABB2", << "U+13E2" >> >>,
      << "U+ABB3", << "U+13E3" >> >>,
      << "U+ABB4", << "U+13E4" >> >>,
      << "U+ABB5", << "U+13E5" >> >>,
      << "U+ABB6", << "U+13E6" >> >>,
      << "U+ABB7", << "U+13E7" >> >>,
      << "U+ABB8", << "U+13E8" >> >>,
      << "U+ABB9", << "U+13E9" >> >>,
      << "U+ABBA", << "U+13EA" >> >>,
      << "U+ABBB", << "U+13EB" >> >>,
      << "U+ABBC", << "U+13EC" >> >>,
      << "U+ABBD", << "U+13ED" >> >>,
      << "U+ABBE", << "U+13EE" >> >>,
      << "U+ABBF", << "U+13EF" >> >>,
      << "U+FB00", << "F", "F" >> >>,
      << "U+FB01", << "F", "I" >> >>,
      << "U+FB02", << "F", "L" >> >>,
      << "U+FB03", << "F", "F", "I" >> >>,
      << "U+FB04", << "F", "F", "L" >> >>,
      << "U+FB05", << "S", "T" >> >>,
      << "U+FB06", << "S", "T" >> >>,
      << "U+FB13", << "U+0544", "U+0546" >> >>,
      << "U+FB14", << "U+0544", "U+0535" >> >>,
      << "U+FB15", << "U+0544", "U+053B" >> >>,
      << "U+FB16", << "U+054E", "U+0546" >> >>,
      << "U+FB17", << "U+0544", "U+053D" >> >>,
      << "U+FF41", << "U+FF21" >> >>,
      << "U+FF42", << "U+FF22" >> >>,
      << "U+FF43", << "U+FF23" >> >>,
      << "U+FF44", << "U+FF24" >> >>,
      << "U+FF45", << "U+FF25" >> >>,
      << "U+FF46", << "U+FF26" >> >>,
      << "U+FF47", << "U+FF27" >> >>,
      << "U+FF48", << "U+FF28" >> >>,
      << "U+FF49", << "U+FF29" >> >>,
      << "U+FF4A", << "U+FF2A" >> >>,
      << "U+FF4B", << "U+FF2B" >> >>,
      << "U+FF4C", << "U+FF2C" >> >>,
      << "U+FF4D", << "U+FF2D" >> >>,
      << "U+FF4E", << "U+FF2E" >> >>,
      << "U+FF4F", << "U+FF2F" >> >>,
      << "U+FF50", << "U+FF30" >> >>,
      << "U+FF51", << "U+FF31" >> >>,
      << "U+FF52", << "U+FF32" >> >>,
      << "U+FF53", << "U+FF33" >> >>,
      << "U+FF54", << "U+FF34" >> >>,
      << "U+FF55", << "U+FF35" >> >>,
      << "U+FF56", << "U+FF36" >> >>,
      << "U+FF57", << "U+FF37" >> >>,
      << "U+FF58", << "U+FF38" >> >>,
      << "U+FF59", << "U+FF39" >> >>,
      << "U+FF5A", << "U+FF3A" >> >>,
      << "U+10428", << "U+10400" >> >>,
      << "U+10429", << "U+10401" >> >>,
      << "U+1042A", << "U+10402" >> >>,
      << "U+1042B", << "U+10403" >> >>,
      << "U+1042C", << "U+10404" >> >>,
      << "U+1042D", << "U+10405" >> >>,
      << "U+1042E", << "U+10406" >> >>,
      << "U+1042F", << "U+10407" >> >>,
      << "U+10430", << "U+10408" >> >>,
      << "U+10431", << "U+10409" >> >>,
      << "U+10432", << "U+1040A" >> >>,
      << "U+10433", << "U+1040B" >> >>,
      << "U+10434", << "U+1040C" >> >>,
      << "U+10435", << "U+1040D" >> >>,
      << "U+10436", << "U+1040E" >> >>,
      << "U+10437", << "U+1040F" >> >>,
      << "U+10438", << "U+10410" >> >>,
      << "U+10439", << "U+10411" >> >>,
      << "U+1043A", << "U+10412" >> >>,
      << "U+1043B", << "U+10413" >> >>,
      << "U+1043C", << "U+10414" >> >>,
      << "U+1043D", << "U+10415" >> >>,
      << "U+1043E", << "U+10416" >> >>,
      << "U+1043F", << "U+10417" >> >>,
      << "U+10440", << "U+10418" >> >>,
      << "U+10441", << "U+10419" >> >>,
      << "U+10442", << "U+1041A" >> >>,
      << "U+10443", << "U+1041B" >> >>,
      << "U+10444", << "U+1041C" >> >>,
      << "U+10445", << "U+1041D" >> >>,
      << "U+10446", << "U+1041E" >> >>,
      << "U+10447", << "U+1041F" >> >>,
      << "U+10448", << "U+10420" >> >>,
      << "U+10449", << "U+10421" >> >>,
      << "U+1044A", << "U+10422" >> >>,
      << "U+1044B", << "U+10423" >> >>,
      << "U+1044C", << "U+10424" >> >>,
      << "U+1044D", << "U+10425" >> >>,
      << "U+1044E", << "U+10426" >> >>,
      << "U+1044F", << "U+10427" >> >>,
      << "U+104D8", << "U+104B0" >> >>,
      << "U+104D9", << "U+104B1" >> >>,
      << "U+104DA", << "U+104B2" >> >>,
      << "U+104DB", << "U+104B3" >> >>,
      << "U+104DC", << "U+104B4" >> >>,
      << "U+104DD", << "U+104B5" >> >>,
      << "U+104DE", << "U+104B6" >> >>,
      << "U+104DF", << "U+104B7" >> >>,
      << "U+104E0", << "U+104B8" >> >>,
      << "U+104E1", << "U+104B9" >> >>,
      << "U+104E2", << "U+104BA" >> >>,
      << "U+104E3", << "U+104BB" >> >>,
      << "U+104E4", << "U+104BC" >> >>,
      << "U+104E5", << "U+104BD" >> >>,
      << "U+104E6", << "U+104BE" >> >>,
      << "U+104E7", << "U+104BF" >> >>,
      << "U+104E8", << "U+104C0" >> >>,
      << "U+104E9", << "U+104C1" >> >>,
      << "U+104EA", << "U+104C2" >> >>,
      << "U+104EB", << "U+104C3" >> >>,
      << "U+104EC", << "U+104C4" >> >>,
      << "U+104ED", << "U+104C5" >> >>,
      << "U+104EE", << "U+104C6" >> >>,
      << "U+104EF", << "U+104C7" >> >>,
      << "U+104F0", << "U+104C8" >> >>,
      << "U+104F1", << "U+104C9" >> >>,
      << "U+104F2", << "U+104CA" >> >>,
      << "U+104F3", << "U+104CB" >> >>,
      << "U+104F4", << "U+104CC" >> >>,
      << "U+104F5", << "U+104CD" >> >>,
      << "U+104F6", << "U+104CE" >> >>,
      << "U+104F7", << "U+104CF" >> >>,
      << "U+104F8", << "U+104D0" >> >>,
      << "U+104F9", << "U+104D1" >> >>,
      << "U+104FA", << "U+104D2" >> >>,
      << "U+104FB", << "U+104D3" >> >>,
      << "U+10597", << "U+10570" >> >>,
      << "U+10598", << "U+10571" >> >>,
      << "U+10599", << "U+10572" >> >>,
      << "U+1059A", << "U+10573" >> >>,
      << "U+1059B", << "U+10574" >> >>,
      << "U+1059C", << "U+10575" >> >>,
      << "U+1059D", << "U+10576" >> >>,
      << "U+1059E", << "U+10577" >> >>,
      << "U+1059F", << "U+10578" >> >>,
      << "U+105A0", << "U+10579" >> >>,
      << "U+105A1", << "U+1057A" >> >>,
      << "U+105A3", << "U+1057C" >> >>,
      << "U+105A4", << "U+1057D" >> >>,
      << "U+105A5", << "U+1057E" >> >>,
      << "U+105A6", << "U+1057F" >> >>,
      << "U+105A7", << "U+10580" >> >>,
      << "U+105A8", << "U+10581" >> >>,
      << "U+105A9", << "U+10582" >> >>,
      << "U+105AA", << "U+10583" >> >>,
      << "U+105AB", << "U+10584" >> >>,
      << "U+105AC", << "U+10585" >> >>,
      << "U+105AD", << "U+10586" >> >>,
      << "U+105AE", << "U+10587" >> >>,
      << "U+105AF", << "U+10588" >> >>,
      << "U+105B0", << "U+10589" >> >>,
      << "U+105B1", << "U+1058A" >> >>,
      << "U+105B3", << "U+1058C" >> >>,
      << "U+105B4", << "U+1058D" >> >>,
      << "U+105B5", << "U+1058E" >> >>,
      << "U+105B6", << "U+1058F" >> >>,
      << "U+105B7", << "U+10590" >> >>,
      << "U+105B8", << "U+10591" >> >>,
      << "U+105B9", << "U+10592" >> >>,
      << "U+105BB", << "U+10594" >> >>,
      << "U+105BC", << "U+10595" >> >>,
      << "U+10CC0", << "U+10C80" >> >>,
      << "U+10CC1", << "U+10C81" >> >>,
      << "U+10CC2", << "U+10C82" >> >>,
      << "U+10CC3", << "U+10C83" >> >>,
      << "U+10CC4", << "U+10C84" >> >>,
      << "U+10CC5", << "U+10C85" >> >>,
      << "U+10CC6", << "U+10C86" >> >>,
      << "U+10CC7", << "U+10C87" >> >>,
      << "U+10CC8", << "U+10C88" >> >>,
      << "U+10CC9", << "U+10C89" >> >>,
      << "U+10CCA", << "U+10C8A" >> >>,
      << "U+10CCB", << "U+10C8B" >> >>,
      << "U+10CCC", << "U+10C8C" >> >>,
      << "U+10CCD", << "U+10C8D" >> >>,
      << "U+10CCE", << "U+10C8E" >> >>,
      << "U+10CCF", << "U+10C8F" >> >>,
      << "U+10CD0", << "U+10C90" >> >>,
      << "U+10CD1", << "U+10C91" >> >>,
      << "U+10CD2", << "U+10C92" >> >>,
      << "U+10CD3", << "U+10C93" >> >>,
      << "U+10CD4", << "U+10C94" >> >>,
      << "U+10CD5", << "U+10C95" >> >>,
      << "U+10CD6", << "U+10C96" >> >>,
      << "U+10CD7", << "U+10C97" >> >>,
      << "U+10CD8", << "U+10C98" >> >>,
      << "U+10CD9", << "U+10C99" >> >>,
      << "U+10CDA", << "U+10C9A" >> >>,
      << "U+10CDB", << "U+10C9B" >> >>,
      << "U+10CDC", << "U+10C9C" >> >>,
      << "U+10CDD", << "U+10C9D" >> >>,
      << "U+10CDE", << "U+10C9E" >> >>,
      << "U+10CDF", << "U+10C9F" >> >>,
      << "U+10CE0", << "U+10CA0" >> >>,
      << "U+10CE1", << "U+10CA1" >> >>,
      << "U+10CE2", << "U+10CA2" >> >>,
      << "U+10CE3", << "U+10CA3" >> >>,
      << "U+10CE4", << "U+10CA4" >> >>,
      << "U+10CE5", << "U+10CA5" >> >>,
      << "U+10CE6", << "U+10CA6" >> >>,
      << "U+10CE7", << "U+10CA7" >> >>,
      << "U+10CE8", << "U+10CA8" >> >>,
      << "U+10CE9", << "U+10CA9" >> >>,
      << "U+10CEA", << "U+10CAA" >> >>,
      << "U+10CEB", << "U+10CAB" >> >>,
      << "U+10CEC", << "U+10CAC" >> >>,
      << "U+10CED", << "U+10CAD" >> >>,
      << "U+10CEE", << "U+10CAE" >> >>,
      << "U+10CEF", << "U+10CAF" >> >>,
      << "U+10CF0", << "U+10CB0" >> >>,
      << "U+10CF1", << "U+10CB1" >> >>,
      << "U+10CF2", << "U+10CB2" >> >>,
      << "U+10D70", << "U+10D50" >> >>,
      << "U+10D71", << "U+10D51" >> >>,
      << "U+10D72", << "U+10D52" >> >>,
      << "U+10D73", << "U+10D53" >> >>,
      << "U+10D74", << "U+10D54" >> >>,
      << "U+10D75", << "U+10D55" >> >>,
      << "U+10D76", << "U+10D56" >> >>,
      << "U+10D77", << "U+10D57" >> >>,
      << "U+10D78", << "U+10D58" >> >>,
      << "U+10D79", << "U+10D59" >> >>,
      << "U+10D7A", << "U+10D5A" >> >>,
      << "U+10D7B", << "U+10D5B" >> >>,
      << "U+10D7C", << "U+10D5C" >> >>,
      << "U+10D7D", << "U+10D5D" >> >>,
      << "U+10D7E", << "U+10D5E" >> >>,
      << "U+10D7F", << "U+10D5F" >> >>,
      << "U+10D80", << "U+10D60" >> >>,
      << "U+10D81", << "U+10D61" >> >>,
      << "U+10D82", << "U+10D62" >> >>,
      << "U+10D83", << "U+10D63" >> >>,
      << "U+10D84", << "U+10D64" >> >>,
      << "U+10D85", << "U+10D65" >> >>,
      << "U+118C0", << "U+118A0" >> >>,
      << "U+118C1", << "U+118A1" >> >>,
      << "U+118C2", << "U+118A2" >> >>,
      << "U+118C3", << "U+118A3" >> >>,
      << "U+118C4", << "U+118A4" >> >>,
      << "U+118C5", << "U+118A5" >> >>,
      << "U+118C6", << "U+118A6" >> >>,
      << "U+118C7", << "U+118A7" >> >>,
      << "U+118C8", << "U+118A8" >> >>,
      << "U+118C9", << "U+118A9" >> >>,
      << "U+118CA", << "U+118AA" >> >>,
      << "U+118CB", << "U+118AB" >> >>,
      << "U+118CC", << "U+118AC" >> >>,
      << "U+118CD", << "U+118AD" >> >>,
      << "U+118CE", << "U+118AE" >> >>,
      << "U+118CF", << "U+118AF" >> >>,
      << "U+118D0", << "U+118B0" >> >>,
      << "U+118D1", << "U+118B1" >> >>,
      << "U+118D2", << "U+118B2" >> >>,
      << "U+118D3", << "U+118B3" >> >>,
      << "U+118D4", << "U+118B4" >> >>,
      << "U+118D5", << "U+118B5" >> >>,
      << "U+118D6", << "U+118B6" >> >>,
      << "U+118D7", << "U+118B7" >> >>,
      << "U+118D8", << "U+118B8" >> >>,
      << "U+118D9", << "U+118B9" >> >>,
      << "U+118DA", << "U+118BA" >> >>,
      << "U+118DB", << "U+118BB" >> >>,
      << "U+118DC", << "U+118BC" >> >>,
      << "U+118DD", << "U+118BD" >> >>,
      << "U+118DE", << "U+118BE" >> >>,
      << "U+118DF", << "U+118BF" >> >>,
      << "U+16E60", << "U+16E40" >> >>,
      << "U+16E61", << "U+16E41" >> >>,
      << "U+16E62", << "U+16E42" >> >>,
      << "U+16E63", << "U+16E43" >> >>,
      << "U+16E64", << "U+16E44" >> >>,
      << "U+16E65", << "U+16E45" >> >>,
      << "U+16E66", << "U+16E46" >> >>,
      << "U+16E67", << "U+16E47" >> >>,
      << "U+16E68", << "U+16E48" >> >>,
      << "U+16E69", << "U+16E49" >> >>,
      << "U+16E6A", << "U+16E4A" >> >>,
      << "U+16E6B", << "U+16E4B" >> >>,
      << "U+16E6C", << "U+16E4C" >> >>,
      << "U+16E6D", << "U+16E4D" >> >>,
      << "U+16E6E", << "U+16E4E" >> >>,
      << "U+16E6F", << "U+16E4F" >> >>,
      << "U+16E70", << "U+16E50" >> >>,
      << "U+16E71", << "U+16E51" >> >>,
      << "U+16E72", << "U+16E52" >> >>,
      << "U+16E73", << "U+16E53" >> >>,
      << "U+16E74", << "U+16E54" >> >>,
      << "U+16E75", << "U+16E55" >> >>,
      << "U+16E76", << "U+16E56" >> >>,
      << "U+16E77", << "U+16E57" >> >>,
      << "U+16E78", << "U+16E58" >> >>,
      << "U+16E79", << "U+16E59" >> >>,
      << "U+16E7A", << "U+16E5A" >> >>,
      << "U+16E7B", << "U+16E5B" >> >>,
      << "U+16E7C", << "U+16E5C" >> >>,
      << "U+16E7D", << "U+16E5D" >> >>,
      << "U+16E7E", << "U+16E5E" >> >>,
      << "U+16E7F", << "U+16E5F" >> >>,
      << "U+16EBB", << "U+16EA0" >> >>,
      << "U+16EBC", << "U+16EA1" >> >>,
      << "U+16EBD", << "U+16EA2" >> >>,
      << "U+16EBE", << "U+16EA3" >> >>,
      << "U+16EBF", << "U+16EA4" >> >>,
      << "U+16EC0", << "U+16EA5" >> >>,
      << "U+16EC1", << "U+16EA6" >> >>,
      << "U+16EC2", << "U+16EA7" >> >>,
      << "U+16EC3", << "U+16EA8" >> >>,
      << "U+16EC4", << "U+16EA9" >> >>,
      << "U+16EC5", << "U+16EAA" >> >>,
      << "U+16EC6", << "U+16EAB" >> >>,
      << "U+16EC7", << "U+16EAC" >> >>,
      << "U+16EC8", << "U+16EAD" >> >>,
      << "U+16EC9", << "U+16EAE" >> >>,
      << "U+16ECA", << "U+16EAF" >> >>,
      << "U+16ECB", << "U+16EB0" >> >>,
      << "U+16ECC", << "U+16EB1" >> >>,
      << "U+16ECD", << "U+16EB2" >> >>,
      << "U+16ECE", << "U+16EB3" >> >>,
      << "U+16ECF", << "U+16EB4" >> >>,
      << "U+16ED0", << "U+16EB5" >> >>,
      << "U+16ED1", << "U+16EB6" >> >>,
      << "U+16ED2", << "U+16EB7" >> >>,
      << "U+16ED3", << "U+16EB8" >> >>,
      << "U+1E922", << "U+1E900" >> >>,
      << "U+1E923", << "U+1E901" >> >>,
      << "U+1E924", << "U+1E902" >> >>,
      << "U+1E925", << "U+1E903" >> >>,
      << "U+1E926", << "U+1E904" >> >>,
      << "U+1E927", << "U+1E905" >> >>,
      << "U+1E928", << "U+1E906" >> >>,
      << "U+1E929", << "U+1E907" >> >>,
      << "U+1E92A", << "U+1E908" >> >>,
      << "U+1E92B", << "U+1E909" >> >>,
      << "U+1E92C", << "U+1E90A" >> >>,
      << "U+1E92D", << "U+1E90B" >> >>,
      << "U+1E92E", << "U+1E90C" >> >>,
      << "U+1E92F", << "U+1E90D" >> >>,
      << "U+1E930", << "U+1E90E" >> >>,
      << "U+1E931", << "U+1E90F" >> >>,
      << "U+1E932", << "U+1E910" >> >>,
      << "U+1E933", << "U+1E911" >> >>,
      << "U+1E934", << "U+1E912" >> >>,
      << "U+1E935", << "U+1E913" >> >>,
      << "U+1E936", << "U+1E914" >> >>,
      << "U+1E937", << "U+1E915" >> >>,
      << "U+1E938", << "U+1E916" >> >>,
      << "U+1E939", << "U+1E917" >> >>,
      << "U+1E93A", << "U+1E918" >> >>,
      << "U+1E93B", << "U+1E919" >> >>,
      << "U+1E93C", << "U+1E91A" >> >>,
      << "U+1E93D", << "U+1E91B" >> >>,
      << "U+1E93E", << "U+1E91C" >> >>,
      << "U+1E93F", << "U+1E91D" >> >>,
      << "U+1E940", << "U+1E91E" >> >>,
      << "U+1E941", << "U+1E91F" >> >>,
      << "U+1E942", << "U+1E920" >> >>,
      << "U+1E943", << "U+1E921" >> >> }

\* the characters of ASCII; char::to_uppercase changes none but a to z
Ascii ==
    { "\t", "\n", "\f", "\r", " ", "!", "\"", "#", "$", "%", "&", "'", "(", ")", "*",
      "+", ",", "-", ".", "/", "0", "1", "2", "3", "4", "5", "6", "7", "8", "9",
      ":", ";", "<", "=", ">", "?", "@", "A", "B", "C", "D", "E", "F", "G", "H",
      "I", "J", "K", "L", "M", "N", "O", "P", "Q", "R", "S", "T", "U", "V", "W",
      "X", "Y", "Z", "[", "\\", "]", "^", "_", Grave, "a", "b", "c", "d", "e",
      "f", "g", "h", "i", "j", "k", "l", "m", "n", "o", "p", "q", "r", "s", "t",
      "u", "v", "w", "x", "y", "z", "{", "|", "}", "~" }

\* the characters that the rows found for c give, c itself when there is
\* none
MappedBy(rows, c) ==
    IF rows = {} THEN << c >> ELSE (CHOOSE row \in rows : TRUE)[2]

\* char::to_uppercase: the characters c becomes
ToUpperChar(c) ==
    IF c \in Ascii THEN << ToAsciiUpperChar(c) >>
    ELSE MappedBy({row \in UppercaseTable : row[1] = c}, c)

\* str::to_uppercase
RECURSIVE ToUppercase(_)
ToUppercase(str) ==
    IF str = << >> THEN << >> ELSE ToUpperChar(Head(str)) \o ToUppercase(Tail(str))

\* the characters str::trim removes: those with the property White_Space
Whitespace ==
    {"\t", "\n", "U+000B", "\f", "\r", " ", "U+0085", "U+00A0", "U+1680",
     "U+2000", "U+2001", "U+2002", "U+2003", "U+2004", "U+2005", "U+2006",
     "U+2007", "U+2008", "U+2009", "U+200A", "U+2028", "U+2029", "U+202F",
     "U+205F", "U+3000"}

RECURSIVE TrimStart(_)
TrimStart(str) ==
    IF str # << >> /\ Head(str) \in Whitespace THEN TrimStart(Tail(str)) ELSE str

RECURSIVE TrimEnd(_)
TrimEnd(str) ==
    IF str # << >> /\ str[Len(str)] \in Whitespace
    THEN TrimEnd(SubSeq(str, 1, Len(str) - 1))
    ELSE str

\* str::trim
Trim(str) == TrimEnd(TrimStart(str))

\* str::trim_end_matches(c)
RECURSIVE TrimEndMatches(_, _)
TrimEndMatches(str, c) ==
    IF str # << >> /\ str[Len(str)] = c
    THEN TrimEndMatches(SubSeq(str, 1, Len(str) - 1), c)
    ELSE str

\* the index of the first c in str, 0 when there is none
Find(str, c) ==
    IF \E n \in 1..Len(str) : str[n] = c
    THEN CHOOSE n \in 1..Len(str) : str[n] = c /\ \A m \in 1..(n - 1) : str[m] # c
    ELSE 0

\* str::splitn(2, c), collected
SplitN2(str, c) ==
    IF Find(str, c) = 0 THEN << str >>
    ELSE << SubSeq(str, 1, Find(str, c) - 1), SubSeq(str, Find(str, c) + 1, Len(str)) >>

\* str::split(c), collected
RECURSIVE Split(_, _)
Split(str, c) ==
    IF Find(str, c) = 0 THEN << str >>
    ELSE << SubSeq(str, 1, Find(str, c) - 1) >>
         \o Split(SubSeq(str, Find(str, c) + 1, Len(str)), c)

\* the arms of the match of parse_key: the key that the upper-case form u
\* of a token names
KeyNamed(u) ==
        CASE u \in {<< "B", "A", "C", "K", "Q", "U", "O", "T", "E" >>, << Grave >>} ->
               [ok |-> TRUE, code |-> "Backquote"]
          [] u \in {<< "B", "A", "C", "K", "S", "L", "A", "S", "H" >>, << "\\" >>} ->
               [ok |-> TRUE, code |-> "Backslash"]
          [] u \in {<< "B", "R", "A", "C", "K", "E", "T", "L", "E", "F", "T" >>, << "[" >>} ->
               [ok |-> TRUE, code |-> "BracketLeft"]
          [] u \in {<< "B", "R", "A", "C", "K", "E", "T", "R", "I", "G", "H", "T" >>, << "]" >>} ->
               [ok |-> TRUE, code |-> "BracketRight"]
          [] u \in {<< "P", "A", "U", "S", "E" >>, << "P", "A", "U", "S", "E", "B", "R", "E", "A", "K" >>} ->
               [ok |-> TRUE, code |-> "Pause"]
          [] u \in {<< "C", "O", "M", "M", "A" >>, << "," >>} ->
               [ok |-> TRUE, code |-> "Comma"]
          [] u \in {<< "D", "I", "G", "I", "T", "0" >>, << "0" >>} ->
               [ok |-> TRUE, code |-> "Digit0"]
          [] u \in {<< "D", "I", "G", "I", "T", "1" >>, << "1" >>} ->
               [ok |-> TRUE, code |-> "Digit1"]
          [] u \in {<< "D", "I", "G", "I", "T", "2" >>, << "2" >>} ->
               [ok |-> TRUE, code |-> "Digit2"]
          [] u \in {<< "D", "I", "G", "I", "T", "3" >>, << "3" >>} ->
               [ok |-> TRUE, code |-> "Digit3"]
          [] u \in {<< "D", "I", "G", "I", "T", "4" >>, << "4" >>} ->
               [ok |-> TRUE, code |-> "Digit4"]
          [] u \in {<< "D", "I", "G", "I", "T", "5" >>, << "5" >>} ->
               [ok |-> TRUE, code |-> "Digit5"]
          [] u \in {<< "D", "I", "G", "I", "T", "6" >>, << "6" >>} ->
               [ok |-> TRUE, code |-> "Digit6"]
          [] u \in {<< "D", "I", "G", "I", "T", "7" >>, << "7" >>} ->
               [ok |-> TRUE, code |-> "Digit7"]
          [] u \in {<< "D", "I", "G", "I", "T", "8" >>, << "8" >>} ->
               [ok |-> TRUE, code |-> "Digit8"]
          [] u \in {<< "D", "I", "G", "I", "T", "9" >>, << "9" >>} ->
               [ok |-> TRUE, code |-> "Digit9"]
          [] u \in {<< "E", "Q", "U", "A", "L" >>, << "=" >>} ->
               [ok |-> TRUE, code |-> "Equal"]
          [] u \in {<< "K", "E", "Y", "A" >>, << "A" >>} ->
               [ok |-> TRUE, code |-> "KeyA"]
          [] u \in {<< "K", "E", "Y", "B" >>, << "B" >>} ->
               [ok |-> TRUE, code |-> "KeyB"]
          [] u \in {<< "K", "E", "Y", "C" >>, << "C" >>} ->
               [ok |-> TRUE, code |-> "KeyC"]
          [] u \in {<< "K", "E", "Y", "D" >>, << "D" >>} ->
               [ok |-> TRUE, code |-> "KeyD"]
          [] u \in {<< "K", "E", "Y", "E" >>, << "E" >>} ->
               [ok |-> TRUE, code |-> "KeyE"]
          [] u \in {<< "K", "E", "Y", "F" >>, << "F" >>} ->
               [ok |-> TRUE, code |-> "KeyF"]
          [] u \in {<< "K", "E", "Y", "G" >>, << "G" >>} ->
               [ok |-> TRUE, code |-> "KeyG"]
          [] u \in {<< "K", "E", "Y", "H" >>, << "H" >>} ->
               [ok |-> TRUE, code |-> "KeyH"]
          [] u \in {<< "K", "E", "Y", "I" >>, << "I" >>} ->
               [ok |-> TRUE, code |-> "KeyI"]
          [] u \in {<< "K", "E", "Y", "J" >>, << "J" >>} ->
               [ok |-> TRUE, code |-> "KeyJ"]
          [] u \in {<< "K", "E", "Y", "K" >>, << "K" >>} ->
               [ok |-> TRUE, code |-> "KeyK"]
          [] u \in {<< "K", "E", "Y", "L" >>, << "L" >>} ->
               [ok |-> TRUE, code |-> "KeyL"]
          [] u \in {<< "K", "E", "Y", "M" >>, << "M" >>} ->
               [ok |-> TRUE, code |-> "KeyM"]
          [] u \in {<< "K", "E", "Y", "N" >>, << "N" >>} ->
               [ok |-> TRUE, code |-> "KeyN"]
          [] u \in {<< "K", "E", "Y", "O" >>, << "O" >>} ->
               [ok |-> TRUE, code |-> "KeyO"]
          [] u \in {<< "K", "E", "Y", "P" >>, << "P" >>} ->
               [ok |-> TRUE, code |-> "KeyP"]
          [] u \in {<< "K", "E", "Y", "Q" >>, << "Q" >>} ->
               [ok |-> TRUE, code |-> "KeyQ"]
          [] u \in {<< "K", "E", "Y", "R" >>, << "R" >>} ->
               [ok |-> TRUE, code |-> "KeyR"]
          [] u \in {<< "K", "E", "Y", "S" >>, << "S" >>} ->
               [ok |-> TRUE, code |-> "KeyS"]
          [] u \in {<< "K", "E", "Y", "T" >>, << "T" >>} ->
               [ok |-> TRUE, code |-> "KeyT"]
          [] u \in {<< "K", "E", "Y", "U" >>, << "U" >>} ->
               [ok |-> TRUE, code |-> "KeyU"]
          [] u \in {<< "K", "E", "Y", "V" >>, << "V" >>} ->
               [ok |-> TRUE, code |-> "KeyV"]
          [] u \in {<< "K", "E", "Y", "W" >>, << "W" >>} ->
               [ok |-> TRUE, code |-> "KeyW"]
          [] u \in {<< "K", "E", "Y", "X" >>, << "X" >>} ->
               [ok |-> TRUE, code |-> "KeyX"]
          [] u \in {<< "K", "E", "Y", "Y" >>, << "Y" >>} ->
               [ok |-> TRUE, code |-> "KeyY"]
          [] u \in {<< "K", "E", "Y", "Z" >>, << "Z" >>} ->
               [ok |-> TRUE, code |-> "KeyZ"]
          [] u \in {<< "M", "I", "N", "U", "S" >>, << "-" >>} ->
               [ok |-> TRUE, code |-> "Minus"]
          [] u \in {<< "P", "E", "R", "I", "O", "D" >>, << "." >>} ->
               [ok |-> TRUE, code |-> "Period"]
          [] u \in {<< "Q", "U", "O", "T", "E" >>, << "'" >>} ->
               [ok |-> TRUE, code |-> "Quote"]
          [] u \in {<< "S", "E", "M", "I", "C", "O", "L", "O", "N" >>, << ";" >>} ->
               [ok |-> TRUE, code |-> "Semicolon"]
          [] u \in {<< "S", "L", "A", "S", "H" >>, << "/" >>} ->
               [ok |-> TRUE, code |-> "Slash"]
          [] u \in {<< "B", "A", "C", "K", "S", "P", "A", "C", "E" >>} ->
               [ok |-> TRUE, code |-> "Backspace"]
          [] u \in {<< "C", "A", "P", "S", "L", "O", "C", "K" >>} ->
               [ok |-> TRUE, code |-> "CapsLock"]
          [] u \in {<< "E", "N", "T", "E", "R" >>} ->
               [ok |-> TRUE, code |-> "Enter"]
          [] u \in {<< "S", "P", "A", "C", "E" >>} ->
               [ok |-> TRUE, code |-> "Space"]
          [] u \in {<< "T", "A", "B" >>} ->
               [ok |-> TRUE, code |-> "Tab"]
          [] u \in {<< "D", "E", "L", "E", "T", "E" >>} ->
               [ok |-> TRUE, code |-> "Delete"]
          [] u \in {<< "E", "N", "D" >>} ->
               [ok |-> TRUE, code |-> "End"]
          [] u \in {<< "H", "O", "M", "E" >>} ->
               [ok |-> TRUE, code |-> "Home"]
          [] u \in {<< "I", "N", "S", "E", "R", "T" >>} ->
               [ok |-> TRUE, code |-> "Insert"]
          [] u \in {<< "P", "A", "G", "E", "D", "O", "W", "N" >>} ->
               [ok |-> TRUE, code |-> "PageDown"]
          [] u \in {<< "P", "A", "G", "E", "U", "P" >>} ->
               [ok |-> TRUE, code |-> "PageUp"]
          [] u \in {<< "P", "R", "I", "N", "T", "S", "C", "R", "E", "E", "N" >>} ->
               [ok |-> TRUE, code |-> "PrintScreen"]
          [] u \in {<< "S", "C", "R", "O", "L", "L", "L", "O", "C", "K" >>} ->
               [ok |-> TRUE, code |-> "ScrollLock"]
          [] u \in {<< "A", "R", "R", "O", "W", "D", "O", "W", "N" >>, << "D", "O", "W", "N" >>} ->
               [ok |-> TRUE, code |-> "ArrowDown"]
          [] u \in {<< "A", "R", "R", "O", "W", "L", "E", "F", "T" >>, << "L", "E", "F", "T" >>} ->
               [ok |-> TRUE, code |-> "ArrowLeft"]
          [] u \in {<< "A", "R", "R", "O", "W", "R", "I", "G", "H", "T" >>, << "R", "I", "G", "H", "T" >>} ->
               [ok |-> TRUE, code |-> "ArrowRight"]
          [] u \in {<< "A", "R", "R", "O", "W", "U", "P" >>, << "U", "P" >>} ->
               [ok |-> TRUE, code |-> "ArrowUp"]
          [] u \in {<< "N", "U", "M", "L", "O", "C", "K" >>} ->
               [ok |-> TRUE, code |-> "NumLock"]
          [] u \in {<< "N", "U", "M", "P", "A", "D", "0" >>, << "N", "U", "M", "0" >>} ->
               [ok |-> TRUE, code |-> "Numpad0"]
          [] u \in {<< "N", "U", "M", "P", "A", "D", "1" >>, << "N", "U", "M", "1" >>} ->
               [ok |-> TRUE, code |-> "Numpad1"]
          [] u \in {<< "N", "U", "M", "P", "A", "D", "2" >>, << "N", "U", "M", "2" >>} ->
               [ok |-> TRUE, code |-> "Numpad2"]
          [] u \in {<< "N", "U", "M", "P", "A", "D", "3" >>, << "N", "U", "M", "3" >>} ->
               [ok |-> TRUE, code |-> "Numpad3"]
          [] u \in {<< "N", "U", "M", "P", "A", "D", "4" >>, << "N", "U", "M", "4" >>} ->
               [ok |-> TRUE, code |-> "Numpad4"]
          [] u \in {<< "N", "U", "M", "P", "A", "D", "5" >>, << "N", "U", "M", "5" >>} ->
               [ok |-> TRUE, code |-> "Numpad5"]
          [] u \in {<< "N", "U", "M", "P", "A", "D", "6" >>, << "N", "U", "M", "6" >>} ->
               [ok |-> TRUE, code |-> "Numpad6"]
          [] u \in {<< "N", "U", "M", "P", "A", "D", "7" >>, << "N", "U", "M", "7" >>} ->
               [ok |-> TRUE, code |-> "Numpad7"]
          [] u \in {<< "N", "U", "M", "P", "A", "D", "8" >>, << "N", "U", "M", "8" >>} ->
               [ok |-> TRUE, code |-> "Numpad8"]
          [] u \in {<< "N", "U", "M", "P", "A", "D", "9" >>, << "N", "U", "M", "9" >>} ->
               [ok |-> TRUE, code |-> "Numpad9"]
          [] u \in {<< "N", "U", "M", "P", "A", "D", "A", "D", "D" >>, << "N", "U", "M", "A", "D", "D" >>, << "N", "U", "M", "P", "A", "D", "P", "L", "U", "S" >>, << "N", "U", "M", "P", "L", "U", "S" >>} ->
               [ok |-> TRUE, code |-> "NumpadAdd"]
          [] u \in {<< "N", "U", "M", "P", "A", "D", "D", "E", "C", "I", "M", "A", "L" >>, << "N", "U", "M", "D", "E", "C", "I", "M", "A", "L" >>} ->
               [ok |-> TRUE, code |-> "NumpadDecimal"]
          [] u \in {<< "N", "U", "M", "P", "A", "D", "D", "I", "V", "I", "D", "E" >>, << "N", "U", "M", "D", "I", "V", "I", "D", "E" >>} ->
               [ok |-> TRUE, code |-> "NumpadDivide"]
          [] u \in {<< "N", "U", "M", "P", "A", "D", "E", "N", "T", "E", "R" >>, << "N", "U", "M", "E", "N", "T", "E", "R" >>} ->
               [ok |-> TRUE, code |-> "NumpadEnter"]
          [] u \in {<< "N", "U", "M", "P", "A", "D", "E", "Q", "U", "A", "L" >>, << "N", "U", "M", "E", "Q", "U", "A", "L" >>} ->
               [ok |-> TRUE, code |-> "NumpadEqual"]
          [] u \in {<< "N", "U", "M", "P", "A", "D", "M", "U", "L", "T", "I", "P", "L", "Y" >>, << "N", "U", "M", "M", "U", "L", "T", "I", "P", "L", "Y" >>} ->
               [ok |-> TRUE, code |-> "NumpadMultiply"]
          [] u \in {<< "N", "U", "M", "P", "A", "D", "S", "U", "B", "T", "R", "A", "C", "T" >>, << "N", "U", "M", "S", "U", "B", "T", "R", "A", "C", "T" >>} ->
               [ok |-> TRUE, code |-> "NumpadSubtract"]
          [] u \in {<< "E", "S", "C", "A", "P", "E" >>, << "E", "S", "C" >>} ->
               [ok |-> TRUE, code |-> "Escape"]
          [] u \in {<< "F", "1" >>} ->
               [ok |-> TRUE, code |-> "F1"]
          [] u \in {<< "F", "2" >>} ->
               [ok |-> TRUE, code |-> "F2"]
          [] u \in {<< "F", "3" >>} ->
               [ok |-> TRUE, code |-> "F3"]
          [] u \in {<< "F", "4" >>} ->
               [ok |-> TRUE, code |-> "F4"]
          [] u \in {<< "F", "5" >>} ->
               [ok |-> TRUE, code |-> "F5"]
          [] u \in {<< "F", "6" >>} ->
               [ok |-> TRUE, code |-> "F6"]
          [] u \in {<< "F", "7" >>} ->
               [ok |-> TRUE, code |-> "F7"]
          [] u \in {<< "F", "8" >>} ->
               [ok |-> TRUE, code |-> "F8"]
          [] u \in {<< "F", "9" >>} ->
               [ok |-> TRUE, code |-> "F9"]
          [] u \in {<< "F", "1", "0" >>} ->
               [ok |-> TRUE, code |-> "F10"]
          [] u \in {<< "F", "1", "1" >>} ->
               [ok |-> TRUE, code |-> "F11"]
          [] u \in {<< "F", "1", "2" >>} ->
               [ok |-> TRUE, code |-> "F12"]
          [] u \in {<< "A", "U", "D", "I", "O", "V", "O", "L", "U", "M", "E", "D", "O", "W", "N" >>, << "V", "O", "L", "U", "M", "E", "D", "O", "W", "N" >>} ->
               [ok |-> TRUE, code |-> "AudioVolumeDown"]
          [] u \in {<< "A", "U", "D", "I", "O", "V", "O", "L", "U", "M", "E", "U", "P" >>, << "V", "O", "L", "U", "M", "E", "U", "P" >>} ->
               [ok |-> TRUE, code |-> "AudioVolumeUp"]
          [] u \in {<< "A", "U", "D", "I", "O", "V", "O", "L", "U", "M", "E", "M", "U", "T", "E" >>, << "V", "O", "L", "U", "M", "E", "M", "U", "T", "E" >>} ->
               [ok |-> TRUE, code |-> "AudioVolumeMute"]
          [] u \in {<< "M", "E", "D", "I", "A", "P", "L", "A", "Y" >>} ->
               [ok |-> TRUE, code |-> "MediaPlay"]
          [] u \in {<< "M", "E", "D", "I", "A", "P", "A", "U", "S", "E" >>} ->
               [ok |-> TRUE, code |-> "MediaPause"]
          [] u \in {<< "M", "E", "D", "I", "A", "P", "L", "A", "Y", "P", "A", "U", "S", "E" >>} ->
               [ok |-> TRUE, code |-> "MediaPlayPause"]
          [] u \in {<< "M", "E", "D", "I", "A", "S", "T", "O", "P" >>} ->
               [ok |-> TRUE, code |-> "MediaStop"]
          [] u \in {<< "M", "E", "D", "I", "A", "T", "R", "A", "C", "K", "N", "E", "X", "T" >>} ->
               [ok |-> TRUE, code |-> "MediaTrackNext"]
          [] u \in {<< "M", "E", "D", "I", "A", "T", "R", "A", "C", "K", "P", "R", "E", "V" >>, << "M", "E", "D", "I", "A", "T", "R", "A", "C", "K", "P", "R", "E", "V", "I", "O", "U", "S" >>} ->
               [ok |-> TRUE, code |-> "MediaTrackPrevious"]
          [] u \in {<< "F", "1", "3" >>} ->
               [ok |-> TRUE, code |-> "F13"]
          [] u \in {<< "F", "1", "4" >>} ->
               [ok |-> TRUE, code |-> "F14"]
          [] u \in {<< "F", "1", "5" >>} ->
               [ok |-> TRUE, code |-> "F15"]
          [] u \in {<< "F", "1", "6" >>} ->
               [ok |-> TRUE, code |-> "F16"]
          [] u \in {<< "F", "1", "7" >>} ->
               [ok |-> TRUE, code |-> "F17"]
          [] u \in {<< "F", "1", "8" >>} ->
               [ok |-> TRUE, code |-> "F18"]
          [] u \in {<< "F", "1", "9" >>} ->
               [ok |-> TRUE, code |-> "F19"]
          [] u \in {<< "F", "2", "0" >>} ->
               [ok |-> TRUE, code |-> "F20"]
          [] u \in {<< "F", "2", "1" >>} ->
               [ok |-> TRUE, code |-> "F21"]
          [] u \in {<< "F", "2", "2" >>} ->
               [ok |-> TRUE, code |-> "F22"]
          [] u \in {<< "F", "2", "3" >>} ->
               [ok |-> TRUE, code |-> "F23"]
          [] u \in {<< "F", "2", "4" >>} ->
               [ok |-> TRUE, code |-> "F24"]
          [] OTHER -> [ok |-> FALSE, code |-> "UnsupportedKey"]

\* parse_key: the key a token names, by its upper-case form
ParseKey(key) == KeyNamed(ToUppercase(key))

\* the keys parse_key can return
Codes ==
    {"Backquote", "Backslash", "BracketLeft", "BracketRight", "Pause",
     "Comma", "Digit0", "Digit1", "Digit2", "Digit3", "Digit4", "Digit5",
     "Digit6", "Digit7", "Digit8", "Digit9", "Equal", "KeyA", "KeyB",
     "KeyC", "KeyD", "KeyE", "KeyF", "KeyG", "KeyH", "KeyI", "KeyJ",
     "KeyK", "KeyL", "KeyM", "KeyN", "KeyO", "KeyP", "KeyQ", "KeyR",
     "KeyS", "KeyT", "KeyU", "KeyV", "KeyW", "KeyX", "KeyY", "KeyZ",
     "Minus", "Period", "Quote", "Semicolon", "Slash", "Backspace",
     "CapsLock", "Enter", "Space", "Tab", "Delete", "End", "Home",
     "Insert", "PageDown", "PageUp", "PrintScreen", "ScrollLock",
     "ArrowDown", "ArrowLeft", "ArrowRight", "ArrowUp", "NumLock",
     "Numpad0", "Numpad1", "Numpad2", "Numpad3", "Numpad4", "Numpad5",
     "Numpad6", "Numpad7", "Numpad8", "Numpad9", "NumpadAdd",
     "NumpadDecimal", "NumpadDivide", "NumpadEnter", "NumpadEqual",
     "NumpadMultiply", "NumpadSubtract", "Escape", "F1", "F2", "F3", "F4",
     "F5", "F6", "F7", "F8", "F9", "F10", "F11", "F12", "AudioVolumeDown",
     "AudioVolumeUp", "AudioVolumeMute", "MediaPlay", "MediaPause",
     "MediaPlayPause", "MediaStop", "MediaTrackNext", "MediaTrackPrevious",
     "F13", "F14", "F15", "F16", "F17", "F18", "F19", "F20", "F21", "F22",
     "F23", "F24"}

\* Display of Code: the name of the key
CodeToString(code) ==
    CASE code = "Backquote" -> << "B", "a", "c", "k", "q", "u", "o", "t", "e" >>
      [] code = "Backslash" -> << "B", "a", "c", "k", "s", "l", "a", "s", "h" >>
      [] code = "BracketLeft" -> << "B", "r", "a", "c", "k", "e", "t", "L", "e", "f", "t" >>
      [] code = "BracketRight" -> << "B", "r", "a", "c", "k", "e", "t", "R", "i", "g", "h", "t" >>
      [] code = "Pause" -> << "P", "a", "u", "s", "e" >>
      [] code = "Comma" -> << "C", "o", "m", "m", "a" >>
      [] code = "Digit0" -> << "D", "i", "g", "i", "t", "0" >>
      [] code = "Digit1" -> << "D", "i", "g", "i", "t", "1" >>
      [] code = "Digit2" -> << "D", "i", "g", "i", "t", "2" >>
      [] code = "Digit3" -> << "D", "i", "g", "i", "t", "3" >>
      [] code = "Digit4" -> << "D", "i", "g", "i", "t", "4" >>
      [] code = "Digit5" -> << "D", "i", "g", "i", "t", "5" >>
      [] code = "Digit6" -> << "D", "i", "g", "i", "t", "6" >>
      [] code = "Digit7" -> << "D", "i", "g", "i", "t", "7" >>
      [] code = "Digit8" -> << "D", "i", "g", "i", "t", "8" >>
      [] code = "Digit9" -> << "D", "i", "g", "i", "t", "9" >>
      [] code = "Equal" -> << "E", "q", "u", "a", "l" >>
      [] code = "KeyA" -> << "K", "e", "y", "A" >>
      [] code = "KeyB" -> << "K", "e", "y", "B" >>
      [] code = "KeyC" -> << "K", "e", "y", "C" >>
      [] code = "KeyD" -> << "K", "e", "y", "D" >>
      [] code = "KeyE" -> << "K", "e", "y", "E" >>
      [] code = "KeyF" -> << "K", "e", "y", "F" >>
      [] code = "KeyG" -> << "K", "e", "y", "G" >>
      [] code = "KeyH" -> << "K", "e", "y", "H" >>
      [] code = "KeyI" -> << "K", "e", "y", "I" >>
      [] code = "KeyJ" -> << "K", "e", "y", "J" >>
      [] code = "KeyK" -> << "K", "e", "y", "K" >>
      [] code = "KeyL" -> << "K", "e", "y", "L" >>
      [] code = "KeyM" -> << "K", "e", "y", "M" >>
      [] code = "KeyN" -> << "K", "e", "y", "N" >>
      [] code = "KeyO" -> << "K", "e", "y", "O" >>
      [] code = "KeyP" -> << "K", "e", "y", "P" >>
      [] code = "KeyQ" -> << "K", "e", "y", "Q" >>
      [] code = "KeyR" -> << "K", "e", "y", "R" >>
      [] code = "KeyS" -> << "K", "e", "y", "S" >>
      [] code = "KeyT" -> << "K", "e", "y", "T" >>
      [] code = "KeyU" -> << "K", "e", "y", "U" >>
      [] code = "KeyV" -> << "K", "e", "y", "V" >>
      [] code = "KeyW" -> << "K", "e", "y", "W" >>
      [] code = "KeyX" -> << "K", "e", "y", "X" >>
      [] code = "KeyY" -> << "K", "e", "y", "Y" >>
      [] code = "KeyZ" -> << "K", "e", "y", "Z" >>
      [] code = "Minus" -> << "M", "i", "n", "u", "s" >>
      [] code = "Period" -> << "P", "e", "r", "i", "o", "d" >>
      [] code = "Quote" -> << "Q", "u", "o", "t", "e" >>
      [] code = "Semicolon" -> << "S", "e", "m", "i", "c", "o", "l", "o", "n" >>
      [] code = "Slash" -> << "S", "l", "a", "s", "h" >>
      [] code = "Backspace" -> << "B", "a", "c", "k", "s", "p", "a", "c", "e" >>
      [] code = "CapsLock" -> << "C", "a", "p", "s", "L", "o", "c", "k" >>
      [] code = "Enter" -> << "E", "n", "t", "e", "r" >>
      [] code = "Space" -> << "S", "p", "a", "c", "e" >>
      [] code = "Tab" -> << "T", "a", "b" >>
      [] code = "Delete" -> << "D", "e", "l", "e", "t", "e" >>
      [] code = "End" -> << "E", "n", "d" >>
      [] code = "Home" -> << "H", "o", "m", "e" >>
      [] code = "Insert" -> << "I", "n", "s", "e", "r", "t" >>
      [] code = "PageDown" -> << "P", "a", "g", "e", "D", "o", "w", "n" >>
      [] code = "PageUp" -> << "P", "a", "g", "e", "U", "p" >>
      [] code = "PrintScreen" -> << "P", "r", "i", "n", "t", "S", "c", "r", "e", "e", "n" >>
      [] code = "ScrollLock" -> << "S", "c", "r", "o", "l", "l", "L", "o", "c", "k" >>
      [] code = "ArrowDown" -> << "A", "r", "r", "o", "w", "D", "o", "w", "n" >>
      [] code = "ArrowLeft" -> << "A", "r", "r", "o", "w", "L", "e", "f", "t" >>
      [] code = "ArrowRight" -> << "A", "r", "r", "o", "w", "R", "i", "g", "h", "t" >>
      [] code = "ArrowUp" -> << "A", "r", "r", "o", "w", "U", "p" >>
      [] code = "NumLock" -> << "N", "u", "m", "L", "o", "c", "k" >>
      [] code = "Numpad0" -> << "N", "u", "m", "p", "a", "d", "0" >>
      [] code = "Numpad1" -> << "N", "u", "m", "p", "a", "d", "1" >>
      [] code = "Numpad2" -> << "N", "u", "m", "p", "a", "d", "2" >>
      [] code = "Numpad3" -> << "N", "u", "m", "p", "a", "d", "3" >>
      [] code = "Numpad4" -> << "N", "u", "m", "p", "a", "d", "4" >>
      [] code = "Numpad5" -> << "N", "u", "m", "p", "a", "d", "5" >>
      [] code = "Numpad6" -> << "N", "u", "m", "p", "a", "d", "6" >>
      [] code = "Numpad7" -> << "N", "u", "m", "p", "a", "d", "7" >>
      [] code = "Numpad8" -> << "N", "u", "m", "p", "a", "d", "8" >>
      [] code = "Numpad9" -> << "N", "u", "m", "p", "a", "d", "9" >>
      [] code = "NumpadAdd" -> << "N", "u", "m", "p", "a", "d", "A", "d", "d" >>
      [] code = "NumpadDecimal" -> << "N", "u", "m", "p", "a", "d", "D", "e", "c", "i", "m", "a", "l" >>
      [] code = "NumpadDivide" -> << "N", "u", "m", "p", "a", "d", "D", "i", "v", "i", "d", "e" >>
      [] code = "NumpadEnter" -> << "N", "u", "m", "p", "a", "d", "E", "n", "t", "e", "r" >>
      [] code = "NumpadEqual" -> << "N", "u", "m", "p", "a", "d", "E", "q", "u", "a", "l" >>
      [] code = "NumpadMultiply" -> << "N", "u", "m", "p", "a", "d", "M", "u", "l", "t", "i", "p", "l", "y" >>
      [] code = "NumpadSubtract" -> << "N", "u", "m", "p", "a", "d", "S", "u", "b", "t", "r", "a", "c", "t" >>
      [] code = "Escape" -> << "E", "s", "c", "a", "p", "e" >>
      [] code = "F1" -> << "F", "1" >>
      [] code = "F2" -> << "F", "2" >>
      [] code = "F3" -> << "F", "3" >>
      [] code = "F4" -> << "F", "4" >>
      [] code = "F5" -> << "F", "5" >>
      [] code = "F6" -> << "F", "6" >>
      [] code = "F7" -> << "F", "7" >>
      [] code = "F8" -> << "F", "8" >>
      [] code = "F9" -> << "F", "9" >>
      [] code = "F10" -> << "F", "1", "0" >>
      [] code = "F11" -> << "F", "1", "1" >>
      [] code = "F12" -> << "F", "1", "2" >>
      [] code = "AudioVolumeDown" -> << "A", "u", "d", "i", "o", "V", "o", "l", "u", "m", "e", "D", "o", "w", "n" >>
      [] code = "AudioVolumeUp" -> << "A", "u", "d", "i", "o", "V", "o", "l", "u", "m", "e", "U", "p" >>
      [] code = "AudioVolumeMute" -> << "A", "u", "d", "i", "o", "V", "o", "l", "u", "m", "e", "M", "u", "t", "e" >>
      [] code = "MediaPlay" -> << "M", "e", "d", "i", "a", "P", "l", "a", "y" >>
      [] code = "MediaPause" -> << "M", "e", "d", "i", "a", "P", "a", "u", "s", "e" >>
      [] code = "MediaPlayPause" -> << "M", "e", "d", "i", "a", "P", "l", "a", "y", "P", "a", "u", "s", "e" >>
      [] code = "MediaStop" -> << "M", "e", "d", "i", "a", "S", "t", "o", "p" >>
      [] code = "MediaTrackNext" -> << "M", "e", "d", "i", "a", "T", "r", "a", "c", "k", "N", "e", "x", "t" >>
      [] code = "MediaTrackPrevious" -> << "M", "e", "d", "i", "a", "T", "r", "a", "c", "k", "P", "r", "e", "v", "i", "o", "u", "s" >>
      [] code = "F13" -> << "F", "1", "3" >>
      [] code = "F14" -> << "F", "1", "4" >>
      [] code = "F15" -> << "F", "1", "5" >>
      [] code = "F16" -> << "F", "1", "6" >>
      [] code = "F17" -> << "F", "1", "7" >>
      [] code = "F18" -> << "F", "1", "8" >>
      [] code = "F19" -> << "F", "1", "9" >>
      [] code = "F20" -> << "F", "2", "0" >>
      [] code = "F21" -> << "F", "2", "1" >>
      [] code = "F22" -> << "F", "2", "2" >>
      [] code = "F23" -> << "F", "2", "3" >>
      [] code = "F24" -> << "F", "2", "4" >>

\* HotKey::into_string: the modifiers in the order shift, control, alt,
\* super, each followed by "+", then the key
IntoString(hotkey) ==
    (IF "SHIFT" \in hotkey.mods THEN << "s", "h", "i", "f", "t", "+" >> ELSE << >>)
    \o (IF "CONTROL" \in hotkey.mods THEN << "c", "o", "n", "t", "r", "o", "l", "+" >> ELSE << >>)
    \o (IF "ALT" \in hotkey.mods THEN << "a", "l", "t", "+" >> ELSE << >>)
    \o (IF "SUPER" \in hotkey.mods THEN << "s", "u", "p", "e", "r", "+" >> ELSE << >>)
    \o CodeToString(hotkey.key)

\* the loop of parse_hotkey over the tokens of a chord of two or more
\* tokens, with its early returns
RECURSIVE ParseTokens(_, _, _)
ParseTokens(tokens, mods, key) ==
    IF tokens = << >> THEN [res |-> "Ok", mods |-> mods, key |-> key, token |-> << >>]
    ELSE LET token == Trim(Head(tokens))
             u == ToUppercase(token)
         IN  IF token = << >>
             THEN [res |-> "EmptyToken", mods |-> mods, key |-> key, token |-> token]
             ELSE IF key # None
             THEN [res |-> "InvalidFormat", mods |-> mods, key |-> key, token |-> token]
             ELSE IF u \in {<< "O", "P", "T", "I", "O", "N" >>, << "A", "L", "T" >>}
                  THEN ParseTokens(Tail(tokens), mods \cup {"ALT"}, key)
             ELSE IF u \in {<< "C", "O", "N", "T", "R", "O", "L" >>, << "C", "T", "R", "L" >>}
                  THEN ParseTokens(Tail(tokens), mods \cup {"CONTROL"}, key)
             ELSE IF u \in {<< "C", "O", "M", "M", "A", "N", "D" >>, << "C", "M", "D" >>, << "S", "U", "P", "E", "R" >>}
                  THEN ParseTokens(Tail(tokens), mods \cup {"SUPER"}, key)
             ELSE IF u = << "S", "H", "I", "F", "T" >>
                  THEN ParseTokens(Tail(tokens), mods \cup {"SHIFT"}, key)
             ELSE IF ParseKey(token).ok
                  THEN ParseTokens(Tail(tokens), mods, Some(ParseKey(token).code))
             ELSE [res |-> "UnsupportedKey", mods |-> mods, key |-> key, token |-> token]

\* parse_hotkey(hotkey_str): Ok with the hot key, or the error and the text
\* it reports
ParseHotkey(hotkey_str) ==
    LET parts == SplitN2(hotkey_str, "<")
        name_part == Trim(parts[1])
        hotkey_part == TrimEndMatches(IF Len(parts) > 1 THEN parts[2] ELSE << >>, ">")
        tokens == Split(hotkey_part, "+")
        name == IF name_part = << >> THEN None ELSE Some(name_part)
        Err(e) == [res |-> e, text |-> hotkey_part]
    IN  IF Len(tokens) = 1
        THEN IF ParseKey(tokens[1]).ok
             THEN [res |-> "Ok", hotkey |-> NewHotKey({}, ParseKey(tokens[1]).code, name)]
             ELSE [res |-> "UnsupportedKey", text |-> tokens[1]]
        ELSE LET r == ParseTokens(tokens, {}, None)
             IN  IF r.res = "UnsupportedKey"
                 THEN [res |-> "UnsupportedKey", text |-> r.token]
                 ELSE IF r.res # "Ok" THEN Err(r.res)
                 ELSE IF r.key = None THEN Err("InvalidFormat")
                 ELSE [res |-> "Ok", hotkey |-> NewHotKey(r.mods, r.key[1], name)]

\* the valid descriptors: modifiers out of shift, control, alt and super,
\* and a key the parser accepts
Descriptors ==
    {NewHotKey(m, k, None) : m \in SUBSET {"SHIFT", "CONTROL", "ALT", "SUPER"}, k \in Codes}

\* the strings given to the parser: chords without and with the
\* delimiters, one with a name
HotKeyInputs ==
    { << "F", "8" >>,
      << "c", "t", "r", "l", "+", "r" >>,
      << "c", "t", "r", "l", "+", "a", "l", "t", "+", "b" >>,
      << "s", "h", "i", "f", "t", "+", "a", "l", "t", "+", "K", "e", "y", "Q" >>,
      << "<", "F", "8", ">" >>,
      << "<", "c", "t", "r", "l", "+", "r", ">" >>,
      << "s", "a", "v", "e", "<", "c", "t", "r", "l", "+", "a", "l", "t", "+", "b", ">" >>,
      << "<", "s", "h", "i", "f", "t", "+", "a", "l", "t", "+", "K", "e", "y", "Q", ">" >> }

\* longest chord, in tokens, given to the HotKey parser
MaxChord == 3

\* the tokens the chords are made of: the names of the modifiers in several
\* letter cases, names of keys, blank tokens and a token that names nothing
HotKeyTokenChoices ==
    { << "s", "h", "i", "f", "t" >>,
      << "a", "l", "t" >>,
      << "O", "p", "t", "i", "o", "n" >>,
      << "c", "t", "r", "l" >>,
      << "C", "o", "n", "t", "r", "o", "l" >>,
      << "w", "i", "n" >>,
      << "W", "i", "n", "d", "o", "w", "s" >>,
      << "S", "U", "P", "E", "R" >>,
      << "c", "m", "d" >>,
      << "C", "O", "M", "M", "A", "N", "D" >>,
      << "K", "e", "y", "Q" >>,
      << "b" >>,
      << >>,
      << " " >>,
      << "q", "1" >>,
      << "U+017F", "h", "i", "f", "t" >>,
      << "\f", "b" >> }

\* the tokens joined by "+"
RECURSIVE Join(_)
Join(tokens) ==
    IF Len(tokens) = 1 THEN tokens[1]
    ELSE tokens[1] \o << "+" >> \o Join(Tail(tokens))

\* the chords of one to MaxChord tokens
HotKeyChords ==
    UNION {{Join(tokens) : tokens \in [1..n -> HotKeyTokenChoices]} : n \in 1..MaxChord}

\* a chord inside the delimiters
Delimited(chord) == << "<" >> \o chord \o << ">" >>

\* the arguments given to HotKey::new: sets of modifier flags, META and a
\* flag outside the four of a hot key among them, keys from both ends of
\* the numbering, without and with a name
NewArguments ==
    (SUBSET {"SHIFT", "CONTROL", "ALT", "SUPER", "META", "CAPS_LOCK"})
    \X {"Backquote", "KeyQ", "F24", "Fn"}
    \X {None, Some(<< "s", "a", "v", "e" >>)}

\* a descriptor, a string or the arguments of HotKey::new are given
HotKeyInit ==
    /\ AtRest("hotkey")
    /\ \/ \E arguments \in NewArguments :
             last = [Call("given", None, "arguments") EXCEPT !.args = arguments]
       \/ \E hotkey \in Descriptors :
             last = [Call("given", None, "descriptor") EXCEPT !.args = << hotkey >>]
       \/ \E str \in HotKeyInputs :
             last = [Call("given", None, "string") EXCEPT !.args = << str >>]
       \/ \E chord \in HotKeyChords : \E str \in {chord, Delimited(chord)} :
             last = [Call("given", None, "string") EXCEPT !.args = << str >>]

\* what the encoder and the parser leave alone
HotKeyFrame ==
    WinFrame /\ UNCHANGED << hotkeys, HOTKEYS, winthreads, issued, unregistered >>

\* hotkey.into_string() for the given descriptor
HotKeyIntoString ==
    /\ mode = "hotkey"
    /\ last.op = "given" /\ last.res = "descriptor"
    /\ last' = [Call("into_string", None, "Ok") EXCEPT
                  !.args = last.args, !.ret = IntoString(last.args[1])]
    /\ HotKeyFrame

\* the string into_string returned is parsed; the descriptor it was made
\* from stays next to it
HotKeyParseEncoded ==
    /\ mode = "hotkey"
    /\ last.op = "into_string"
    /\ last' = [Call("parse_hotkey", None, ParseHotkey(last.ret).res) EXCEPT
                  !.args = << last.ret, last.args[1] >>,
                  !.ret = ParseHotkey(last.ret)]
    /\ HotKeyFrame

\* the given string is parsed
HotKeyParse ==
    /\ mode = "hotkey"
    /\ last.op = "given" /\ last.res = "string"
    /\ last' = [Call("parse_hotkey", None, ParseHotkey(last.args[1]).res) EXCEPT
                  !.args = last.args, !.ret = ParseHotkey(last.args[1])]
    /\ HotKeyFrame

\* HotKey::new(mods, key, name) for the given arguments
HotKeyNew ==
    /\ mode = "hotkey"
    /\ last.op = "given" /\ last.res = "arguments"
    /\ last' = [Call("new", None, "Ok") EXCEPT
                  !.args = last.args,
                  !.ret = NewHotKey(last.args[1], last.args[2], last.args[3])]
    /\ HotKeyFrame

HotKeyNext ==
    \/ HotKeyNew
    \/ HotKeyIntoString
    \/ HotKeyParseEncoded
    \/ HotKeyParse

HotKeySpec == HotKeyInit /\ [][HotKeyNext]_vars

(***************************************************************************)
(* keys/vk.rs and global.rs: the key names and the GlobalHotkey parser.    *)
(* A VirtualKey is its variant and, for CustomKeyCode, the code it holds.  *)
(***************************************************************************)
\* longest chord, in tokens, given to the GlobalHotkey parser
MaxTokens == 3

\* a variant of VirtualKey without a field
Vk(variant) == [variant |-> variant, code |-> 0]

\* VirtualKey::CustomKeyCode(code)
CustomKeyCode(code) == [variant |-> "CustomKeyCode", code |-> code]

\* to_vk_code, for the variants without a field: the VK_* constant of each
VkConst(variant) ==
    CASE variant = "Back" -> 8
      [] variant = "Tab" -> 9
      [] variant = "Clear" -> 12
      [] variant = "Return" -> 13
      [] variant = "Shift" -> 16
      [] variant = "Control" -> 17
      [] variant = "Menu" -> 18
      [] variant = "Pause" -> 19
      [] variant = "Capital" -> 20
      [] variant = "Escape" -> 27
      [] variant = "Space" -> 32
      [] variant = "Prior" -> 33
      [] variant = "Next" -> 34
      [] variant = "End" -> 35
      [] variant = "Home" -> 36
      [] variant = "Left" -> 37
      [] variant = "Up" -> 38
      [] variant = "Right" -> 39
      [] variant = "Down" -> 40
      [] variant = "Select" -> 41
      [] variant = "Print" -> 42
      [] variant = "Execute" -> 43
      [] variant = "Snapshot" -> 44
      [] variant = "Insert" -> 45
      [] variant = "Delete" -> 46
      [] variant = "Help" -> 47
      [] variant = "LWin" -> 91
      [] variant = "RWin" -> 92
      [] variant = "Apps" -> 93
      [] variant = "Sleep" -> 95
      [] variant = "Numpad0" -> 96
      [] variant = "Numpad1" -> 97
      [] variant = "Numpad2" -> 98
      [] variant = "Numpad3" -> 99
      [] variant = "Numpad4" -> 100
      [] variant = "Numpad5" -> 101
      [] variant = "Numpad6" -> 102
      [] variant = "Numpad7" -> 103
      [] variant = "Numpad8" -> 104
      [] variant = "Numpad9" -> 105
      [] variant = "Multiply" -> 106
      [] variant = "Add" -> 107
      [] variant = "Separator" -> 108
      [] variant = "Subtract" -> 109
      [] variant = "Decimal" -> 110
      [] variant = "Divide" -> 111
      [] variant = "F1" -> 112
      [] variant = "F2" -> 113
      [] variant = "F3" -> 114
      [] variant = "F4" -> 115
      [] variant = "F5" -> 116
      [] variant = "F6" -> 117
      [] variant = "F7" -> 118
      [] variant = "F8" -> 119
      [] variant = "F9" -> 120
      [] variant = "F10" -> 121
      [] variant = "F11" -> 122
      [] variant = "F12" -> 123
      [] variant = "F13" -> 124
      [] variant = "F14" -> 125
      [] variant = "F15" -> 126
      [] variant = "F16" -> 127
      [] variant = "F17" -> 128
      [] variant = "F18" -> 129
      [] variant = "F19" -> 130
      [] variant = "F20" -> 131
      [] variant = "F21" -> 132
      [] variant = "F22" -> 133
      [] variant = "F23" -> 134
      [] variant = "F24" -> 135
      [] variant = "Numlock" -> 144
      [] variant = "Scroll" -> 145
      [] variant = "LShift" -> 160
      [] variant = "RShift" -> 161
      [] variant = "LControl" -> 162
      [] variant = "RControl" -> 163
      [] variant = "LMenu" -> 164
      [] variant = "RMenu" -> 165
      [] variant = "BrowserBack" -> 166
      [] variant = "BrowserForward" -> 167
      [] variant = "BrowserRefresh" -> 168
      [] variant = "BrowserStop" -> 169
      [] variant = "BrowserSearch" -> 170
      [] variant = "BrowserFavorites" -> 171
      [] variant = "BrowserHome" -> 172
      [] variant = "VolumeMute" -> 173
      [] variant = "VolumeDown" -> 174
      [] variant = "VolumeUp" -> 175
      [] variant = "MediaNextTrack" -> 176
      [] variant = "MediaPrevTrack" -> 177
      [] variant = "MediaStop" -> 178
      [] variant = "MediaPlayPause" -> 179
      [] variant = "LaunchMail" -> 180
      [] variant = "LaunchMediaSelect" -> 181
      [] variant = "LaunchApp1" -> 182
      [] variant = "LaunchApp2" -> 183
      [] variant = "Oem1" -> 186
      [] variant = "OemPlus" -> 187
      [] variant = "OemComma" -> 188
      [] variant = "OemMinus" -> 189
      [] variant = "OemPeriod" -> 190
      [] variant = "Oem2" -> 191
      [] variant = "Oem3" -> 192
      [] variant = "Oem4" -> 219
      [] variant = "Oem5" -> 220
      [] variant = "Oem6" -> 221
      [] variant = "Oem7" -> 222
      [] variant = "Oem8" -> 223
      [] variant = "Oem102" -> 226
      [] variant = "Attn" -> 246
      [] variant = "Crsel" -> 247
      [] variant = "Exsel" -> 248
      [] variant = "Play" -> 250
      [] variant = "Zoom" -> 251
      [] variant = "Pa1" -> 253
      [] variant = "OemClear" -> 254
      [] variant = "Vk0" -> 48
      [] variant = "Vk1" -> 49
      [] variant = "Vk2" -> 50
      [] variant = "Vk3" -> 51
      [] variant = "Vk4" -> 52
      [] variant = "Vk5" -> 53
      [] variant = "Vk6" -> 54
      [] variant = "Vk7" -> 55
      [] variant = "Vk8" -> 56
      [] variant = "Vk9" -> 57
      [] variant = "A" -> 65
      [] variant = "B" -> 66
      [] variant = "C" -> 67
      [] variant = "D" -> 68
      [] variant = "E" -> 69
      [] variant = "F" -> 70
      [] variant = "G" -> 71
      [] variant = "H" -> 72
      [] variant = "I" -> 73
      [] variant = "J" -> 74
      [] variant = "K" -> 75
      [] variant = "L" -> 76
      [] variant = "M" -> 77
      [] variant = "N" -> 78
      [] variant = "O" -> 79
      [] variant = "P" -> 80
      [] variant = "Q" -> 81
      [] variant = "R" -> 82
      [] variant = "S" -> 83
      [] variant = "T" -> 84
      [] variant = "U" -> 85
      [] variant = "V" -> 86
      [] variant = "W" -> 87
      [] variant = "X" -> 88
      [] variant = "Y" -> 89
      [] variant = "Z" -> 90

\* the VK_* key specifiers from_keyname knows, each with its variant
KeySpecifiers ==
    { << << "B", "A", "C", "K" >>, "Back" >>,
      << << "T", "A", "B" >>, "Tab" >>,
      << << "C", "L", "E", "A", "R" >>, "Clear" >>,
      << << "R", "E", "T", "U", "R", "N" >>, "Return" >>,
      << << "S", "H", "I", "F", "T" >>, "Shift" >>,
      << << "C", "O", "N", "T", "R", "O", "L" >>, "Control" >>,
      << << "M", "E", "N", "U" >>, "Menu" >>,
      << << "P", "A", "U", "S", "E" >>, "Pause" >>,
      << << "C", "A", "P", "I", "T", "A", "L" >>, "Capital" >>,
      << << "E", "S", "C", "A", "P", "E" >>, "Escape" >>,
      << << "S", "P", "A", "C", "E" >>, "Space" >>,
      << << "P", "R", "I", "O", "R" >>, "Prior" >>,
      << << "N", "E", "X", "T" >>, "Next" >>,
      << << "E", "N", "D" >>, "End" >>,
      << << "H", "O", "M", "E" >>, "Home" >>,
      << << "L", "E", "F", "T" >>, "Left" >>,
      << << "U", "P" >>, "Up" >>,
      << << "R", "I", "G", "H", "T" >>, "Right" >>,
      << << "D", "O", "W", "N" >>, "Down" >>,
      << << "S", "E", "L", "E", "C", "T" >>, "Select" >>,
      << << "P", "R", "I", "N", "T" >>, "Print" >>,
      << << "E", "X", "E", "C", "U", "T", "E" >>, "Execute" >>,
      << << "S", "N", "A", "P", "S", "H", "O", "T" >>, "Snapshot" >>,
      << << "I", "N", "S", "E", "R", "T" >>, "Insert" >>,
      << << "D", "E", "L", "E", "T", "E" >>, "Delete" >>,
      << << "H", "E", "L", "P" >>, "Help" >>,
      << << "L", "W", "I", "N" >>, "LWin" >>,
      << << "R", "W", "I", "N" >>, "RWin" >>,
      << << "A", "P", "P", "S" >>, "Apps" >>,
      << << "S", "L", "E", "E", "P" >>, "Sleep" >>,
      << << "N", "U", "M", "P", "A", "D", "0" >>, "Numpad0" >>,
      << << "N", "U", "M", "P", "A", "D", "1" >>, "Numpad1" >>,
      << << "N", "U", "M", "P", "A", "D", "2" >>, "Numpad2" >>,
      << << "N", "U", "M", "P", "A", "D", "3" >>, "Numpad3" >>,
      << << "N", "U", "M", "P", "A", "D", "4" >>, "Numpad4" >>,
      << << "N", "U", "M", "P", "A", "D", "5" >>, "Numpad5" >>,
      << << "N", "U", "M", "P", "A", "D", "6" >>, "Numpad6" >>,
      << << "N", "U", "M", "P", "A", "D", "7" >>, "Numpad7" >>,
      << << "N", "U", "M", "P", "A", "D", "8" >>, "Numpad8" >>,
      << << "N", "U", "M", "P", "A", "D", "9" >>, "Numpad9" >>,
      << << "M", "U", "L", "T", "I", "P", "L", "Y" >>, "Multiply" >>,
      << << "A", "D", "D" >>, "Add" >>,
      << << "S", "E", "P", "A", "R", "A", "T", "O", "R" >>, "Separator" >>,
      << << "S", "U", "B", "T", "R", "A", "C", "T" >>, "Subtract" >>,
      << << "D", "E", "C", "I", "M", "A", "L" >>, "Decimal" >>,
      << << "D", "I", "V", "I", "D", "E" >>, "Divide" >>,
      << << "F", "1" >>, "F1" >>,
      << << "F", "2" >>, "F2" >>,
      << << "F", "3" >>, "F3" >>,
      << << "F", "4" >>, "F4" >>,
      << << "F", "5" >>, "F5" >>,
      << << "F", "6" >>, "F6" >>,
      << << "F", "7" >>, "F7" >>,
      << << "F", "8" >>, "F8" >>,
      << << "F", "9" >>, "F9" >>,
      << << "F", "1", "0" >>, "F10" >>,
      << << "F", "1", "1" >>, "F11" >>,
      << << "F", "1", "2" >>, "F12" >>,
      << << "F", "1", "3" >>, "F13" >>,
      << << "F", "1", "4" >>, "F14" >>,
      << << "F", "1", "5" >>, "F15" >>,
      << << "F", "1", "6" >>, "F16" >>,
      << << "F", "1", "7" >>, "F17" >>,
      << << "F", "1", "8" >>, "F18" >>,
      << << "F", "1", "9" >>, "F19" >>,
      << << "F", "2", "0" >>, "F20" >>,
      << << "F", "2", "1" >>, "F21" >>,
      << << "F", "2", "2" >>, "F22" >>,
      << << "F", "2", "3" >>, "F23" >>,
      << << "F", "2", "4" >>, "F24" >>,
      << << "N", "U", "M", "L", "O", "C", "K" >>, "Numlock" >>,
      << << "S", "C", "R", "O", "L", "L" >>, "Scroll" >>,
      << << "L", "S", "H", "I", "F", "T" >>, "LShift" >>,
      << << "R", "S", "H", "I", "F", "T" >>, "RShift" >>,
      << << "L", "C", "O", "N", "T", "R", "O", "L" >>, "LControl" >>,
      << << "R", "C", "O", "N", "T", "R", "O", "L" >>, "RControl" >>,
      << << "L", "M", "E", "N", "U" >>, "LMenu" >>,
      << << "R", "M", "E", "N", "U" >>, "RMenu" >>,
      << << "B", "R", "O", "W", "S", "E", "R", "_", "B", "A", "C", "K" >>, "BrowserBack" >>,
      << << "B", "R", "O", "W", "S", "E", "R", "_", "F", "O", "R", "W", "A", "R", "D" >>, "BrowserForward" >>,
      << << "B", "R", "O", "W", "S", "E", "R", "_", "R", "E", "F", "R", "E", "S", "H" >>, "BrowserRefresh" >>,
      << << "B", "R", "O", "W", "S", "E", "R", "_", "S", "T", "O", "P" >>, "BrowserStop" >>,
      << << "B", "R", "O", "W", "S", "E", "R", "_", "S", "E", "A", "R", "C", "H" >>, "BrowserSearch" >>,
      << << "B", "R", "O", "W", "S", "E", "R", "_", "F", "A", "V", "O", "R", "I", "T", "E", "S" >>, "BrowserFavorites" >>,
      << << "B", "R", "O", "W", "S", "E", "R", "_", "H", "O", "M", "E" >>, "BrowserHome" >>,
      << << "V", "O", "L", "U", "M", "E", "_", "M", "U", "T", "E" >>, "VolumeMute" >>,
      << << "V", "O", "L", "U", "M", "E", "_", "D", "O", "W", "N" >>, "VolumeDown" >>,
      << << "V", "O", "L", "U", "M", "E", "_", "U", "P" >>, "VolumeUp" >>,
      << << "M", "E", "D", "I", "A", "_", "N", "E", "X", "T", "_", "T", "R", "A", "C", "K" >>, "MediaNextTrack" >>,
      << << "M", "E", "D", "I", "A", "_", "P", "R", "E", "V", "_", "T", "R", "A", "C", "K" >>, "MediaPrevTrack" >>,
      << << "M", "E", "D", "I", "A", "_", "S", "T", "O", "P" >>, "MediaStop" >>,
      << << "M", "E", "D", "I", "A", "_", "P", "L", "A", "Y", "_", "P", "A", "U", "S", "E" >>, "MediaPlayPause" >>,
      << << "L", "A", "U", "N", "C", "H", "_", "M", "A", "I", "L" >>, "LaunchMail" >>,
      << << "L", "A", "U", "N", "C", "H", "_", "M", "E", "D", "I", "A", "_", "S", "E", "L", "E", "C", "T" >>, "LaunchMediaSelect" >>,
      << << "L", "A", "U", "N", "C", "H", "_", "A", "P", "P", "1" >>, "LaunchApp1" >>,
      << << "L", "A", "U", "N", "C", "H", "_", "A", "P", "P", "2" >>, "LaunchApp2" >>,
      << << "O", "E", "M", "_", "1" >>, "Oem1" >>,
      << << "O", "E", "M", "_", "P", "L", "U", "S" >>, "OemPlus" >>,
      << << "O", "E", "M", "_", "C", "O", "M", "M", "A" >>, "OemComma" >>,
      << << "O", "E", "M", "_", "M", "I", "N", "U", "S" >>, "OemMinus" >>,
      << << "O", "E", "M", "_", "P", "E", "R", "I", "O", "D" >>, "OemPeriod" >>,
      << << "O", "E", "M", "_", "2" >>, "Oem2" >>,
      << << "O", "E", "M", "_", "3" >>, "Oem3" >>,
      << << "O", "E", "M", "_", "4" >>, "Oem4" >>,
      << << "O", "E", "M", "_", "5" >>, "Oem5" >>,
      << << "O", "E", "M", "_", "6" >>, "Oem6" >>,
      << << "O", "E", "M", "_", "7" >>, "Oem7" >>,
      << << "O", "E", "M", "_", "8" >>, "Oem8" >>,
      << << "O", "E", "M", "_", "1", "0", "2" >>, "Oem102" >>,
      << << "A", "T", "T", "N" >>, "Attn" >>,
      << << "C", "R", "S", "E", "L" >>, "Crsel" >>,
      << << "E", "X", "S", "E", "L" >>, "Exsel" >>,
      << << "P", "L", "A", "Y" >>, "Play" >>,
      << << "Z", "O", "O", "M" >>, "Zoom" >>,
      << << "P", "A", "1" >>, "Pa1" >>,
      << << "O", "E", "M", "_", "C", "L", "E", "A", "R" >>, "OemClear" >> }

\* VirtualKey::to_vk_code, over every variant
ToVkCodeOf(vk) ==
    IF vk.variant = "CustomKeyCode" THEN vk.code ELSE VkConst(vk.variant)

Digits == << "0", "1", "2", "3", "4", "5", "6", "7", "8", "9" >>

\* the position of c in the sequence s, 0 when it is not in it
IndexOf(s, c) ==
    IF \E n \in 1..Len(s) : s[n] = c THEN CHOOSE n \in 1..Len(s) : s[n] = c ELSE 0

\* u8::is_ascii_uppercase and u8::is_ascii_digit
IsAsciiUppercase(c) == IndexOf(UpperCase, c) # 0
IsAsciiDigit(c) == IndexOf(Digits, c) # 0

\* the byte of an upper-case ASCII letter ('A' is 65) or digit ('0' is 48)
AsU16(c) ==
    IF IsAsciiUppercase(c) THEN ToVkCodeOf(Vk("A")) + IndexOf(UpperCase, c) - 1
    ELSE ToVkCodeOf(Vk("Vk0")) + IndexOf(Digits, c) - 1

\* str::starts_with
StartsWith(str, prefix) ==
    Len(str) >= Len(prefix) /\ SubSeq(str, 1, Len(prefix)) = prefix

\* str::trim_start_matches(prefix): the prefix is removed as often as it
\* is there
RECURSIVE TrimStartMatches(_, _)
TrimStartMatches(str, prefix) ==
    IF StartsWith(str, prefix)
    THEN TrimStartMatches(SubSeq(str, Len(prefix) + 1, Len(str)), prefix)
    ELSE str

\* the value of a hexadecimal digit, -1 for any other character
HexDigit(c) ==
    IF IsAsciiDigit(c) THEN IndexOf(Digits, c) - 1
    ELSE IF IndexOf(<< "A", "B", "C", "D", "E", "F" >>, ToAsciiUpperChar(c)) # 0
    THEN 9 + IndexOf(<< "A", "B", "C", "D", "E", "F" >>, ToAsciiUpperChar(c))
    ELSE -1

\* the digits of u16::from_str_radix(_, 16), most significant first: the
\* value, or -1 for a character that is no digit or a value beyond u16
RECURSIVE HexValue(_, _)
HexValue(digits, acc) ==
    IF digits = << >> THEN acc
    ELSE IF HexDigit(Head(digits)) < 0 \/ acc * 16 + HexDigit(Head(digits)) >= U16 THEN -1
    ELSE HexValue(Tail(digits), acc * 16 + HexDigit(Head(digits)))

\* u16::from_str_radix(str, 16): an optional "+", then one digit or more
FromStrRadix16(str) ==
    LET digits == IF str # << >> /\ Head(str) = "+" THEN Tail(str) ELSE str
    IN  IF digits = << >> THEN -1 ELSE HexValue(digits, 0)

\* VirtualKey::from_keyname(val): Ok with the key, or InvalidKey with the
\* upper-case form of val
FromKeyname(val) ==
    LET v == ToAsciiUppercase(val)
        hex == FromStrRadix16(SubSeq(v, 3, Len(v)))
        name == TrimStartMatches(v, << "V", "K", "_" >>)
        InvalidKey == [ok |-> FALSE, key |-> Vk("InvalidKey"), text |-> v]
        Ok(k) == [ok |-> TRUE, key |-> k, text |-> << >>]
    IN  IF Len(v) = 1 /\ (IsAsciiUppercase(v[1]) \/ IsAsciiDigit(v[1]))
        THEN Ok(CustomKeyCode(AsU16(v[1])))
        ELSE IF (Len(v) >= 3 /\ Len(v) <= 6 /\ StartsWith(v, << "0", "x" >>))
                \/ StartsWith(v, << "0", "X" >>)
        THEN IF hex >= 0 THEN Ok(CustomKeyCode(hex)) ELSE InvalidKey
        ELSE IF \E row \in KeySpecifiers : row[1] = name
        THEN Ok(Vk((CHOOSE row \in KeySpecifiers : row[1] = name)[2]))
        ELSE InvalidKey

\* Display for HotkeyError::InvalidKey(key), which to_string() gives
InvalidKeyToString(key) ==
    << "i", "n", "v", "a", "l", "i", "d", " ", "k", "e", "y", " ",
       "n", "a", "m", "e", " ", Grave >> \o key \o << Grave >>

\* impl TryFrom<&str> for VirtualKey: the key a name stands for
VirtualKeyTryFrom(val) == FromKeyname(val)

\* impl TryInto<ModifiersKey> for VirtualKey: the modifier a key is, None
\* when it is no modifier key
TryIntoModifiersKey(vk) ==
    LET code == ToVkCodeOf(vk)
    IN  IF code \in {VkConst("Menu"), VkConst("LMenu"), VkConst("RMenu")} THEN Some("Alt")
        ELSE IF code \in {VkConst("Control"), VkConst("LControl"), VkConst("RControl")}
        THEN Some("Ctrl")
        ELSE IF code \in {VkConst("Shift"), VkConst("LShift"), VkConst("RShift")}
        THEN Some("Shift")
        ELSE IF code \in {VkConst("LWin"), VkConst("RWin")} THEN Some("Win")
        ELSE None

\* ModifiersKey::from_keyname(val): the modifier a name stands for, None
\* for InvalidKey
ModifiersFromKeyname(val) ==
    LET u == ToAsciiUppercase(val)
    IN  IF u = << "A", "L", "T" >> THEN Some("Alt")
        ELSE IF u \in {<< "C", "T", "R", "L" >>, << "C", "O", "N", "T", "R", "O", "L" >>}
        THEN Some("Ctrl")
        ELSE IF u = << "S", "H", "I", "F", "T" >> THEN Some("Shift")
        ELSE IF u \in {<< "W", "I", "N" >>, << "W", "I", "N", "D", "O", "W", "S" >>,
                       << "S", "U", "P", "E", "R" >>}
        THEN Some("Win")
        ELSE IF u \in {<< "N", "O", "R", "E", "P", "E", "A", "T" >>,
                       << "N", "O", "_", "R", "E", "P", "E", "A", "T" >>}
        THEN Some("NoRepeat")
        ELSE IF u = << "N", "O", "N" >> THEN Some("Non")
        ELSE None

\* the loop of try_into over the tokens of a string of two or more tokens,
\* with its early returns
RECURSIVE GlobalTokens(_, _, _, _, _)
GlobalTokens(tokens, modifiers, key, extras, found_key) ==
    IF tokens = << >>
    THEN [res |-> "Ok", modifiers |-> modifiers, key |-> key, extras |-> extras,
          text |-> << >>]
    ELSE LET token == Trim(Head(tokens))
             parsed == VirtualKeyTryFrom(token)
             Err(e, t) == [res |-> e, modifiers |-> modifiers, key |-> key,
                           extras |-> extras, text |-> t]
         IN  IF token = << >> THEN Err("EmptyToken", << >>)
             ELSE IF found_key
             THEN IF parsed.ok
                  THEN GlobalTokens(Tail(tokens), modifiers, key,
                                    Append(extras, parsed.key), found_key)
                  ELSE Err("UnsupportedKey", InvalidKeyToString(parsed.text))
             ELSE IF key # None THEN Err("InvalidFormat", << >>)
             ELSE IF ~ parsed.ok
             THEN Err("UnsupportedKey", InvalidKeyToString(parsed.text))
             ELSE IF TryIntoModifiersKey(parsed.key) # None
             THEN GlobalTokens(Tail(tokens),
                               Append(modifiers, TryIntoModifiersKey(parsed.key)[1]),
                               key, extras, found_key)
             ELSE GlobalTokens(Tail(tokens), modifiers, Some(parsed.key), extras, TRUE)

\* impl TryInto<GlobalHotkey<T>> for &str: Ok with the hot key, or the error
\* and the text it carries (for UnsupportedKey what to_string() gives for
\* the error of the key lookup, the whole string for the others)
TryIntoGlobalHotkey(str) ==
    LET tokens == Split(str, "+")
        single == VirtualKeyTryFrom(Trim(tokens[1]))
        r == GlobalTokens(tokens, << >>, None, << >>, FALSE)
        Built(key, modifiers, extras) ==
            [res |-> "Ok",
             hotkey |-> [key |-> key,
                         modifiers |-> IF modifiers = << >> THEN None ELSE Some(modifiers),
                         extras |-> IF extras = << >> THEN None ELSE Some(extras),
                         action |-> None]]
    IN  IF Len(tokens) = 1
        THEN IF single.ok THEN Built(single.key, << >>, << >>)
             ELSE [res |-> "UnsupportedKey", text |-> InvalidKeyToString(single.text)]
        ELSE IF r.res = "UnsupportedKey" THEN [res |-> r.res, text |-> r.text]
        ELSE IF r.res # "Ok" THEN [res |-> r.res, text |-> str]
        ELSE IF r.key = None THEN [res |-> "InvalidFormat", text |-> str]
        ELSE Built(r.key[1], r.modifiers, r.extras)

\* the tokens the strings are made of: names of modifier keys, of other
\* keys, a key code, modifier names that are no key names, blank tokens
\* and a token that names nothing
GlobalTokenChoices ==
    { << "s", "h", "i", "f", "t" >>,
      << "C", "O", "N", "T", "R", "O", "L" >>,
      << "V", "K", "_", "L", "M", "e", "n", "u" >>,
      << "r", "w", "i", "n" >>,
      << "0", "x", "1", "0" >>,
      << "a" >>,
      << "b" >>,
      << " ", "b", " " >>,
      << "F", "8" >>,
      << "c", "t", "r", "l" >>,
      << "a", "l", "t" >>,
      << "O", "p", "t", "i", "o", "n" >>,
      << "w", "i", "n" >>,
      << "c", "m", "d" >>,
      << >>,
      << " " >>,
      << "q", "1" >>,
      << "\f", "a" >> }

\* the strings given to the GlobalHotkey parser
GlobalInputs ==
    UNION {{Join(tokens) : tokens \in [1..n -> GlobalTokenChoices]} : n \in 1..MaxTokens}

\* a string is given
GlobalKeyInit ==
    /\ AtRest("globalkey")
    /\ \E str \in GlobalInputs :
          last = [Call("given", None, "string") EXCEPT !.args = << str >>]

\* the given string is parsed: str.try_into()
GlobalKeyParse ==
    /\ mode = "globalkey"
    /\ last.op = "given"
    /\ last' = [Call("try_into", None, TryIntoGlobalHotkey(last.args[1]).res) EXCEPT
                  !.args = last.args, !.ret = TryIntoGlobalHotkey(last.args[1])]
    /\ HotKeyFrame

\* the given string, one without "+", is looked up as the name of a
\* modifier: ModifiersKey::try_from(str)
GlobalKeyModifier ==
    /\ mode = "globalkey"
    /\ last.op = "given"
    /\ Len(Split(last.args[1], "+")) = 1
    /\ last' = [Call("from_keyname", None,
                     IF ModifiersFromKeyname(last.args[1]) # None THEN "Ok"
                     ELSE "InvalidKey") EXCEPT
                  !.args = last.args, !.ret = ModifiersFromKeyname(last.args[1])]
    /\ HotKeyFrame

GlobalKeyNext == GlobalKeyParse \/ GlobalKeyModifier

GlobalKeySpec == GlobalKeyInit /\ [][GlobalKeyNext]_vars

\* the two descriptor parsers side by side: a string is given to one of
\* them, or a descriptor to the encoder
DescriptorInit == HotKeyInit \/ GlobalKeyInit

DescriptorNext == HotKeyNext \/ GlobalKeyNext

DescriptorSpec == DescriptorInit /\ [][DescriptorNext]_vars

(***************************************************************************)
(* Properties of the single-threaded manager.                              *)
(***************************************************************************)
\* the step completes a call op of the manager (last names the call that
\* completed in the latest step)
Completes(op) == last'.op = op

\* C2: when handle_hotkey takes a WM_HOTKEY message for a registered id
\* whose entry has extra keys, it calls the entry's callback if and only if
\* every extra key is reported as held at that moment; otherwise the message
\* is dropped: no callback runs, nothing is put back on the queue and the
\* thread stays in the polling loop.
C2_ExtraKeysGate ==
    [][ (/\ Completes("poll")
         /\ Head(queue).message = "WM_HOTKEY"
         /\ Head(queue).wParam \in DOMAIN handlers
         /\ handlers[Head(queue).wParam].extra_keys # None)
        => LET handler == handlers[Head(queue).wParam]
               keys == handler.extra_keys[1]
               held == \A n \in 1..Len(keys) : keys[n] \in last'.args[2]
           IN  /\ last'.called = (IF held THEN handler.callback ELSE None)
               /\ ~ held => /\ last'.res = "Continue"
                            /\ queue' = Tail(queue)
                            /\ pc' = pc ]_vars

\* C2 witness: a fire for an entry with a callback and two extra keys was
\* polled while only one of the keys was held, and was dropped.
C2_Witness ==
    /\ last.op = "poll"
    /\ last.args[1].message = "WM_HOTKEY"
    /\ last.id \in DOMAIN handlers
    /\ handlers[last.id].extra_keys = Some(<< "Shift", "Control" >>)
    /\ handlers[last.id].callback # None
    /\ last.args[2] = {"Shift"}
    /\ last.called = None
    /\ pc = "event_loop"

\* the chord of a register call with the given arguments
ArgChord(args) == ChordOf(Combine(args[2]), ToVkCode(args[1]))

\* C3: a register call for a chord that a registration of this manager
\* already holds returns RegistrationFailed and leaves the registry and the
\* platform's registrations as they were, so the first registration stays
\* active: a later fire of its id still calls its callback.
C3_DuplicateChord ==
    [][ /\ (/\ Completes("register")
            /\ \E j \in DOMAIN hotkeys :
                  ChordOf(hotkeys[j].modifiers, hotkeys[j].vk) = ArgChord(last'.args))
           => /\ last'.res = "RegistrationFailed"
              /\ handlers' = handlers
              /\ hotkeys' = hotkeys
        /\ (/\ Completes("poll")
            /\ Head(queue).message = "WM_HOTKEY"
            /\ Head(queue).wParam \in DOMAIN handlers
            /\ handlers[Head(queue).wParam].extra_keys = None)
           => last'.called = handlers[Head(queue).wParam].callback ]_vars

\* C3 witness: the second registration of a chord has just failed and the
\* first, with its callback, is still in the registry.
C3_Witness ==
    /\ last.op = "register"
    /\ last.res = "RegistrationFailed"
    /\ \E j \in DOMAIN handlers :
          /\ ChordOf(hotkeys[j].modifiers, hotkeys[j].vk) = ArgChord(last.args)
          /\ handlers[j].callback = Some("cb1")

\* C4: every register call takes exactly one id from the counter, accepted
\* or not, so the ids of the calls are strictly increasing in call order:
\* successful registrations get increasing ids and the id of a failed
\* attempt is never given to a later call.
C4_IdsConsumed ==
    /\ id = Len(issued)
    /\ \A a, b \in 1..Len(issued) : a < b => issued[a].id < issued[b].id

\* C4 witness: a rejected registration was followed by an accepted one.
C4_Witness ==
    \E a, b \in 1..Len(issued) : a < b /\ ~ issued[a].ok /\ issued[b].ok

\* the ids whose registration succeeded and that were not unregistered
LiveIds == {issued[k].id : k \in {n \in 1..Len(issued) : issued[n].ok}} \ unregistered

\* C5: a rejected register call returns RegistrationFailed and leaves the
\* registry unchanged; an accepted one adds exactly one entry, under the
\* returned id, with the given callback and extra keys, and changes no other
\* entry; the keys of the registry are the ids registered successfully and
\* not successfully unregistered.
C5_RegistryFollowsPlatform ==
    /\ [](DOMAIN handlers = LiveIds)
    /\ [][ Completes("register")
           => LET rid == last'.id
                  accepted == rid \in DOMAIN hotkeys'
              IN  /\ last'.res = (IF accepted THEN "Ok" ELSE "RegistrationFailed")
                  /\ ~ accepted => handlers' = handlers
                  /\ accepted =>
                        /\ rid \notin DOMAIN handlers
                        /\ DOMAIN handlers' = DOMAIN handlers \cup {rid}
                        /\ handlers'[rid].callback = last'.args[4]
                        /\ handlers'[rid].extra_keys = last'.args[3]
                        /\ \A j \in DOMAIN handlers : handlers'[j] = handlers[j] ]_vars

\* C5 witness: an accepted registration with extra keys joined a registry
\* that already held an entry.
C5_Witness ==
    /\ last.op = "register"
    /\ last.res = "Ok"
    /\ last.args[3] # None
    /\ Cardinality(DOMAIN handlers) = 2

\* C6: unregister(id) returns Ok and removes the entry of id when the
\* platform unregisters the hot key; when the platform fails it returns
\* UnregistrationFailed and the registry is unchanged.
C6_Unregister ==
    [][ Completes("unregister")
        => LET i == last'.id
               released == i \in DOMAIN hotkeys /\ i \notin DOMAIN hotkeys'
           IN  /\ last'.res = (IF released THEN "Ok" ELSE "UnregistrationFailed")
               /\ released => /\ DOMAIN handlers' = DOMAIN handlers \ {i}
                              /\ \A j \in DOMAIN handlers' : handlers'[j] = handlers[j]
               /\ ~ released => handlers' = handlers /\ hotkeys' = hotkeys ]_vars

\* C6 witness: an unregister of a registered id has just failed and the
\* entry is still in the registry.
C6_Witness ==
    /\ last.op = "unregister"
    /\ last.res = "UnregistrationFailed"
    /\ last.id \in DOMAIN handlers
    /\ last.id \in DOMAIN hotkeys

\* the elements of a sequence
Range(q) == {q[n] : n \in 1..Len(q)}

\* C7: unregister_all tries the ids of the registry one after the other.
\* Without a failure it returns Ok and the registry is empty. At the first
\* failure it stops and returns the error: the ids tried before it are
\* removed, the failing id and the ids not yet tried stay, with their entries.
C7_UnregisterAll ==
    [][ Completes("unregister_all")
        => LET tried == last'.attempted
               released == DOMAIN hotkeys \ DOMAIN hotkeys'
           IN  /\ Range(tried) \subseteq DOMAIN handlers
               /\ \A a, b \in 1..Len(tried) : a # b => tried[a] # tried[b]
               /\ DOMAIN handlers' = DOMAIN handlers \ released
               /\ \A j \in DOMAIN handlers' : handlers'[j] = handlers[j]
               /\ last'.res = "Ok"
                     => /\ Range(tried) = DOMAIN handlers
                        /\ released = DOMAIN handlers
                        /\ DOMAIN handlers' = {}
               /\ last'.res # "Ok"
                     => /\ last'.res = "UnregistrationFailed"
                        /\ tried # << >>
                        /\ released = {tried[n] : n \in 1..(Len(tried) - 1)}
                        /\ tried[Len(tried)] \in DOMAIN handlers' ]_vars

\* C7 witness: unregister_all removed one id, failed at the next and left
\* it in the registry.
C7_Witness ==
    /\ last.op = "unregister_all"
    /\ last.res = "UnregistrationFailed"
    /\ Len(last.attempted) = 2
    /\ DOMAIN handlers = {last.attempted[2]}
    /\ last.attempted[1] \in unregistered

\* C8: handle_hotkey returns None exactly when it took a WM_NULL message and
\* returns Some(v) exactly when it called a registered callback, v being
\* the value the callback returned; every other message is consumed and the
\* call goes on polling.
C8_ReturnValues ==
    [][ Completes("poll")
        => LET msg == Head(queue)
           IN  /\ queue' = Tail(queue)
               /\ (last'.res = "None") = (msg.message = "WM_NULL")
               /\ (last'.res = "Some") = (last'.called # None)
               /\ last'.res \in {"None", "Some", "Continue"}
               /\ last'.called # None
                     => /\ msg.message = "WM_HOTKEY"
                        /\ msg.wParam \in DOMAIN handlers
                        /\ last'.called = handlers[msg.wParam].callback
                        /\ last'.ret = Some(Invoke(last'.called[1]))
               /\ last'.called = None => last'.ret = None
               /\ pc = "handle_hotkey"
                     => (pc' = "idle") = (last'.res \in {"None", "Some"})
               /\ pc = "event_loop" => (pc' = "idle") = (last'.res = "None") ]_vars

\* C8 witness: a handle_hotkey call consumed a fire for an entry without a
\* callback and is still polling.
C8_Witness ==
    /\ last.op = "poll"
    /\ last.res = "Continue"
    /\ last.args[1].message = "WM_HOTKEY"
    /\ last.id \in DOMAIN handlers
    /\ handlers[last.id].callback = None
    /\ pc = "handle_hotkey"

\* C10: once unregister(id) has returned Ok, no callback is called for a
\* fire of id any more, fires queued before the unregister included.
C10_NoCallAfterUnregister ==
    [][ (Completes("poll") /\ last'.called # None)
        => Head(queue).wParam \notin unregistered ]_vars

\* C10 witness: a fire that was queued for an id since unregistered was
\* polled and called nothing.
C10_Witness ==
    /\ last.op = "poll"
    /\ last.args[1].message = "WM_HOTKEY"
    /\ last.id \in unregistered
    /\ last.called = None
    /\ last.res = "Continue"

\* C11: dispatch is exactly-once and in order. A poll takes exactly the
\* oldest message off the queue and handles that message; no other step
\* removes or reorders messages (they only append); a poll calls at most
\* one callback, the one registered for the id of the message it took; and
\* inside event_loop a fire for a registered id with a callback whose extra
\* keys are all held is never passed over: its callback is called and the
\* loop goes on. Hence callbacks run in the order their fires were queued.
C11_ExactlyOnce ==
    [][ /\ Completes("poll")
           => LET msg == Head(queue)
                  down == last'.args[2]
                  due == /\ msg.message = "WM_HOTKEY"
                         /\ msg.wParam \in DOMAIN handlers
                         /\ handlers[msg.wParam].callback # None
                         /\ handlers[msg.wParam].extra_keys # None
                               => \A n \in 1..Len(handlers[msg.wParam].extra_keys[1]) :
                                     handlers[msg.wParam].extra_keys[1][n] \in down
              IN  /\ queue' = Tail(queue)
                  /\ last'.args[1] = msg
                  /\ last'.called # None
                        => /\ msg.message = "WM_HOTKEY"
                           /\ msg.wParam \in DOMAIN handlers
                           /\ last'.called = handlers[msg.wParam].callback
                  /\ (pc = "event_loop" /\ due)
                        => /\ last'.called = handlers[msg.wParam].callback
                           /\ pc' = "event_loop"
        /\ ~ Completes("poll")
           => /\ Len(queue') >= Len(queue)
              /\ SubSeq(queue', 1, Len(queue)) = queue ]_vars

\* C11 witness: inside event_loop a fire has just been dispatched to its
\* callback while the fire of another hot key waits behind it.
C11_Witness ==
    /\ pc = "event_loop"
    /\ last.op = "poll"
    /\ last.called # None
    /\ queue # << >>
    /\ queue[1].message = "WM_HOTKEY"
    /\ queue[1].wParam # last.id
    /\ queue[1].wParam \in DOMAIN handlers

\* a wakeup is waiting in the queue
WakeupPending == \E n \in 1..Len(queue) : queue[n].message = "WM_NULL"

\* unregister_all() was called with a wakeup pending and event_loop() is
\* the next call, now running; ua_result is what unregister_all returned
LoopAfterUnregisterAll(ua_result) == pc = "event_loop" /\ after_ua = ua_result

\* C9 as the spec states it: with an interrupt pending, event_loop() called
\* right after unregister_all() returns at the wakeup and calls no callback
\* on the way, whatever unregister_all returned.
C9_Original ==
    [][ (Completes("poll") /\ pc = "event_loop" /\ after_ua # "no")
           => /\ last'.called = None
              /\ (pc' = "idle") = (Head(queue).message = "WM_NULL") ]_vars

\* C9, amended: with an interrupt pending, event_loop() called right after
\* unregister_all() never waits on an empty queue and returns at the wakeup,
\* which it eventually reaches; it calls no callback on the way when
\* unregister_all returned Ok. (After UnregistrationFailed the entries that
\* remain are still dispatched.)
C9_LoopAfterUnregisterAll ==
    /\ []((pc = "event_loop" /\ after_ua # "no") => WakeupPending)
    /\ [][ (Completes("poll") /\ pc = "event_loop" /\ after_ua # "no")
              => /\ (pc' = "idle") = (Head(queue).message = "WM_NULL")
                 /\ (after_ua = "Ok" => last'.called = None) ]_vars
    /\ ((pc = "event_loop" /\ after_ua # "no") ~> (pc = "idle"))

\* C9 witness: unregister_all() returned Ok with a hot-key message and a
\* wakeup queued; the loop has just taken the hot-key message, called
\* nothing, and goes on to the wakeup.
C9_Witness ==
    /\ LoopAfterUnregisterAll("Ok")
    /\ last.op = "poll"
    /\ last.args[1].message = "WM_HOTKEY"
    /\ last.called = None
    /\ WakeupPending

\* some thread is blocked in event_loop()
InEventLoop ==
    \/ mode = "single" /\ pc = "event_loop"
    \/ mode = "proxy" /\ \E c \in DOMAIN waiting : waiting[c] = "event_loop"

\* C1: when interrupt() is called on a handle of the manager while a thread
\* is blocked in event_loop(), that event_loop() call eventually returns,
\* on the single-threaded manager and through the proxy.
C1_InterruptEndsLoop ==
    (last.op = "interrupt" /\ InEventLoop) ~> ~ InEventLoop

\* C1 witness: the proxy's caller is blocked in event_loop(), the worker is
\* inside the loop, and interrupt() has just been called.
C1_Witness ==
    /\ mode = "proxy"
    /\ waiting["t1"] = "event_loop"
    /\ pc = "event_loop"
    /\ last.op = "interrupt"
    /\ queue # << >>
    /\ queue[1].message = "WM_HOTKEY"

(***************************************************************************)
(* Properties of the proxy and its worker.                                 *)
(***************************************************************************)
\* the requests in the channel that carry the reply channel of caller c
SentBy(c) == {n \in 1..Len(requests) : requests[n].from = c}

\* C12: the worker takes requests from the front of the channel only, and
\* only when it is idle, so the request it took before has run to its end
\* (a blocking event loop included); callers only append at the back; while a
\* request is running no other request changes the wrapped manager; a caller
\* has at most one request in the channel, so its requests are taken in the
\* order it sent them.
C12_WorkerFifo ==
    [][ /\ requests' # requests
           => \/ /\ requests # << >>
                 /\ requests' = Tail(requests)
                 /\ pc = "idle"
                 /\ serving = None
              \/ /\ Len(requests') = Len(requests) + 1
                 /\ SubSeq(requests', 1, Len(requests)) = requests
                 /\ waiting[requests'[Len(requests')].from] = "no"
        /\ (serving # None \/ pc # "idle")
           => /\ id' = id
              /\ pc # "exiting" => (handlers' = handlers /\ hotkeys' = hotkeys)
        /\ \A c \in DOMAIN waiting : Cardinality(SentBy(c)) <= 1 ]_vars

\* a request waits in the channel while the worker is inside an event loop
C12_Witness ==
    /\ mode = "proxy"
    /\ serving # None
    /\ serving[1].kind = "EventLoop"
    /\ requests # << >>

\* the number of places the call of c is at: in the channel, with the
\* worker, or answered
Outstanding(c) ==
    Cardinality(SentBy(c))
    + (IF serving # None /\ serving[1].from = c THEN 1 ELSE 0)
    + (IF replies[c] # None THEN 1 ELSE 0)

\* C13: a reply is sent only to the caller whose request the worker has
\* taken, and only into an empty reply channel; a blocked caller goes on
\* only by receiving the reply; every blocked caller has its request at
\* exactly one place (channel, worker or reply), every other caller at none.
C13_OneReply ==
    [][ /\ \A c \in DOMAIN waiting :
             /\ (replies'[c] # None /\ replies'[c] # replies[c])
                => /\ replies[c] = None
                   /\ waiting[c] \notin {"no", "gone"}
                   /\ \/ /\ requests # << >>
                         /\ Head(requests).from = c
                         /\ requests' = Tail(requests)
                      \/ /\ serving # None
                         /\ serving[1].from = c
                         /\ serving' = None
             /\ (waiting[c] \notin {"no", "gone"} /\ waiting'[c] # waiting[c])
                => /\ replies[c] # None
                   /\ replies'[c] = None
             /\ Outstanding(c) = (IF waiting[c] \in {"no", "gone"} THEN 0
                                  ELSE IF waiting[c] = "drop" /\ pc = "dropped"
                                          /\ replies[c] = None THEN 0 ELSE 1) ]_vars

\* one caller has its reply while another is still blocked without one
C13_Witness ==
    /\ mode = "proxy"
    /\ \E c, d \in DOMAIN waiting :
          /\ c # d
          /\ replies[c] # None
          /\ waiting[d] \notin {"no", "gone"}
          /\ replies[d] = None

\* caller c has asked for the interrupt handle while the worker is inside an
\* event loop it entered for an earlier request
AsksDuringLoop(c) ==
    /\ mode = "proxy"
    /\ waiting[c] = "interrupt_handle"
    /\ SentBy(c) # {}
    /\ serving # None
    /\ serving[1].kind = "EventLoop"
    /\ pc = "event_loop"

\* C14: an interrupt_handle() request made while an earlier event_loop()
\* request has not returned is answered.
C14_Original ==
    \A c \in ProxyCallers : AsksDuringLoop(c) ~> (replies[c] # None)

\* an interrupt_handle() request is in the channel behind a running loop
C14_Witness == \E c \in ProxyCallers : AsksDuringLoop(c)

\* the drop of the proxy by caller c has begun / has ended
DropBegun(c) == mode = "proxy" /\ waiting[c] = "drop"
DropDone(c) == mode = "proxy" /\ waiting[c] = "gone"

\* the worker's manager is torn down in this step
TearsDown == pc # "dropped" /\ pc' = "dropped"

\* C15 as stated: a drop of the proxy that has begun ends; when it has ended
\* the worker has terminated and the window is destroyed; the teardown
\* submits every hot key of the registry for unregistration.
C15_Original ==
    /\ \A c \in ProxyCallers : DropBegun(c) ~> DropDone(c)
    /\ [](\A c \in ProxyCallers : DropDone(c) => (pc = "dropped" /\ hwnd = "destroyed"))
    /\ [][TearsDown => Range(last'.attempted) = DOMAIN handlers]_vars

\* C15, amended: a drop of the proxy that has begun ends: Exit is sent, the
\* reply is received only after the worker left its loop and the drop ends
\* only after the worker has terminated; then the window is destroyed. The
\* teardown submits the hot keys of the registry for unregistration one after
\* the other and stops at the first one the platform refuses: the ones
\* before it are removed, the refused one and the ones not reached stay.
C15_DropReleases ==
    /\ \A c \in ProxyCallers : DropBegun(c) ~> DropDone(c)
    /\ [](\A c \in ProxyCallers : DropDone(c) => (pc = "dropped" /\ hwnd = "destroyed"))
    /\ [][ /\ TearsDown
              => /\ pc = "exiting"
                 /\ \E c \in ProxyCallers : DropBegun(c)
                 /\ hwnd' = "destroyed"
                 /\ last'.op = "drop"
                 /\ Range(last'.attempted) \subseteq DOMAIN handlers
                 /\ \/ /\ last'.res = "Ok"
                       /\ Range(last'.attempted) = DOMAIN handlers
                       /\ DOMAIN handlers' = {}
                    \/ /\ last'.res = "UnregistrationFailed"
                       /\ last'.attempted # << >>
                       /\ DOMAIN handlers' =
                             (DOMAIN handlers \ Range(last'.attempted))
                             \cup {last'.attempted[Len(last'.attempted)]}
           /\ \A c \in ProxyCallers :
                 (DropBegun(c) /\ DropDone(c)')
                 => (replies[c] # None /\ pc = "dropped" /\ requests = << >>) ]_vars

\* a drop has ended after a teardown in which the platform refused the first
\* of two hot keys
C15_Witness ==
    /\ \E c \in ProxyCallers : DropDone(c)
    /\ hwnd = "destroyed"
    /\ Cardinality(DOMAIN handlers) = 2

\* the calls C16 is about
RegistryCalls == {"register", "unregister", "unregister_all"}

\* C16: after any sequence of register, unregister and unregister_all calls
\* through the proxy, the worker's manager has the id counter and the
\* registry, and the platform the registrations, that the single-threaded
\* manager has after the same calls with the same no-repeat setting, and
\* every reply is the result the single-threaded manager returned.
C16_ProxyRefines ==
    mode = "proxy"
    => /\ id = ref.id
       /\ handlers = ref.handlers
       /\ hotkeys = ref.hotkeys
       /\ \A c \in DOMAIN waiting :
             (waiting[c] \in RegistryCalls /\ replies[c] # None)
             => replies[c] = ref.results[c]

\* the proxy, its no-repeat flag set, has answered a register call with an
\* id, and one of the registrations on the platform carries MOD_NOREPEAT
C16_Witness ==
    /\ mode = "proxy"
    /\ ts_no_repeat
    /\ \E c \in DOMAIN waiting :
          /\ waiting[c] = "register"
          /\ replies[c] # None
          /\ replies[c][1][1] = "Ok"
    /\ \E i \in DOMAIN hotkeys :
          hotkeys[i].modifiers = RegisterModifiers(Some(<< "Ctrl", "Alt" >>), TRUE)

(***************************************************************************)
(* Properties of the facade.                                               *)
(***************************************************************************)
\* this step is a call of the given method of the facade by a user
FacadeCall(op) == last'.op = op /\ \E t \in Users : fthreads[t].pc = "idle"

\* the platform, the worker's manager and the channel stay as they are
BackendUntouched ==
    /\ hotkeys' = hotkeys
    /\ handlers' = handlers
    /\ id' = id
    /\ queue' = queue
    /\ requests' = requests
    /\ waiting' = waiting
    /\ replies' = replies

\* C17: start() called while the listening flag is set returns at once: no
\* request goes to the worker, nothing is registered, the id list, the
\* table and the locks stay as they are, no thread is spawned or moved, and
\* the flag stays set.
C17_StartWhileListening ==
    [][ (FacadeCall("start") /\ facade.listening)
        => /\ last'.res = "already listening"
           /\ facade' = facade
           /\ facade'.listening
           /\ fthreads' = fthreads
           /\ BackendUntouched ]_vars

\* start() has just returned without effect on a facade whose event-loop
\* thread runs and which holds a registered hot key
C17_Witness ==
    /\ mode = "proxy"
    /\ last.op = "start"
    /\ last.res = "already listening"
    /\ facade.listening
    /\ facade.loops > 0
    /\ facade.key_ids # << >>

\* C18: stop() called while the listening flag is clear returns false and
\* changes nothing: flag, table, id list, registrations and threads stay,
\* no cleanup thread is spawned. stop() called while the flag is set goes on
\* to clear the flag; it returns true, and does so only with the flag clear.
C18_Stop ==
    [][ /\ (FacadeCall("stop") /\ ~ facade.listening)
           => /\ last'.res = "false"
              /\ facade' = facade
              /\ fthreads' = fthreads
              /\ BackendUntouched
        /\ (FacadeCall("stop") /\ facade.listening)
           => /\ last'.res = "begun"
              /\ \E t \in Users : fthreads[t].pc = "idle" /\ fthreads'[t].pc = "stop_store"
        /\ (\E t \in Users : fthreads[t].pc = "stop_store" /\ fthreads'[t].pc # "stop_store")
           => /\ last'.op = "stop"
              /\ last'.res = "true"
              /\ ~ facade'.listening
        /\ (last'.op = "stop" /\ last'.res = "true")
           => /\ \E t \in Users : fthreads[t].pc = "stop_store"
              /\ ~ facade'.listening ]_vars

\* stop() has just returned false on a facade that was stopped before and
\* still has ids and registrations
C18_Witness ==
    /\ mode = "proxy"
    /\ last.op = "stop"
    /\ last.res = "false"
    /\ facade.cleans > 0
    /\ facade.key_ids # << >>
    /\ DOMAIN hotkeys # {}

\* the ids in the Ok results of a sequence of submissions, in their order
RECURSIVE OkIds(_)
OkIds(sent) ==
    IF sent = << >> THEN << >>
    ELSE (IF Head(sent).result[1] = "Ok" THEN << Head(sent).result[2] >> ELSE << >>)
         \o OkIds(Tail(sent))

\* C19: a start() that found the flag clear submits the entries of the table
\* one by one, each with the key, modifiers, extra keys and action (or None)
\* of the entry; whatever the result, it goes on with the next entry; an id
\* is appended to the id list exactly for an Ok result, and it is the id of
\* that result; when the call returns every entry of the table has been
\* submitted exactly once and the id list ends with the ids of the
\* registrations that succeeded.
C19_StartSubmitsAll ==
    [][ \A t \in Users :
          /\ (fthreads[t].pc = "start_iter" /\ fthreads'[t].pc = "start_wait")
             => LET entry == facade.table[Head(fthreads[t].todo)]
                    msg == requests'[Len(requests')]
                IN  /\ msg.kind = "Register"
                    /\ msg.from = t
                    /\ msg.arg = << entry.key, entry.modifiers, entry.extras, entry.action >>
                    /\ Head(fthreads[t].todo) \notin
                          {fthreads[t].sent[n].name : n \in 1..Len(fthreads[t].sent)}
          /\ (fthreads[t].pc = "start_wait" /\ fthreads'[t].pc # "start_wait")
             => /\ fthreads'[t].pc = "start_iter"
                /\ fthreads'[t].todo = Tail(fthreads[t].todo)
                /\ facade'.key_ids = IF replies[t][1][1] = "Ok"
                                     THEN Append(facade.key_ids, replies[t][1][2])
                                     ELSE facade.key_ids
                /\ replies[t][1][1] = "Ok" => replies[t][1][2] \in DOMAIN hotkeys
          /\ (fthreads[t].pc # "idle" /\ last'.op = "started")
             => LET sent == fthreads[t].sent
                    ids == OkIds(sent)
                    n0 == Len(facade'.key_ids) - Len(ids)
                IN  /\ Len(sent) = Cardinality(DOMAIN facade.table)
                    /\ {sent[n].name : n \in 1..Len(sent)} = DOMAIN facade.table
                    /\ n0 >= 0
                    /\ SubSeq(facade'.key_ids, n0 + 1, Len(facade'.key_ids)) = ids
          /\ fthreads[t].pc \in {"start_iter", "start_wait"}
             => /\ facade'.table = facade.table
                /\ fthreads'[t].pc \in {"start_iter", "start_wait"}
                   => Len(facade'.key_ids) >= Len(facade.key_ids) ]_vars

\* start() has just returned after two submissions: the first was refused,
\* the second, made all the same, succeeded and its id is in the id list
C19_Witness ==
    /\ mode = "proxy"
    /\ last.op = "started"
    /\ Len(last.attempted) = 2
    /\ last.attempted[1].result[1] = "RegistrationFailed"
    /\ last.attempted[2].result[1] = "Ok"
    /\ facade.key_ids = << last.attempted[2].result[2] >>

\* C20: after stop() returned true the cleanup thread it spawned comes to its
\* end: unregister_all has run and the id list has been cleared.
C20_Original ==
    \A k \in CleanThreads : (fthreads[k].pc = "clean_lock") ~> (fthreads[k].pc = "done")

\* the cleanup thread waits for the manager mutex, which the event-loop
\* thread holds while it is inside event_loop()
C20_Witness ==
    /\ mode = "proxy"
    /\ \E k \in CleanThreads, l \in LoopThreads :
          /\ fthreads[k].pc = "clean_lock"
          /\ fthreads[l].pc = "loop_wait"
          /\ facade.lock.manager = Some(l)
          /\ pc = "event_loop"

\* thread t is blocked in a call: it waits for a reply of the worker (the
\* event loop included)
Blocked(t) == waiting[t] \notin {"no", "gone"}

\* C21: the mutex of the named-hotkey table is never held by a thread that
\* is blocked waiting for a reply of the worker or inside the event loop.
C21_Original ==
    mode = "proxy" /\ facade # None
    => \A t \in DOMAIN fthreads : facade.lock.hotkeys = Some(t) => ~ Blocked(t)

\* start() holds the guard of the table while it waits for the worker's
\* reply to a Register message
C21_Witness ==
    /\ mode = "proxy"
    /\ \E t \in Users :
          /\ fthreads[t].pc = "start_wait"
          /\ facade.lock.hotkeys = Some(t)
          /\ waiting[t] = "register"
          /\ replies[t] = None

(***************************************************************************)
(* Properties of the life of a single-threaded manager.                    *)
(***************************************************************************)
\* C22: a manager that new() has returned has a window: when the window
\* cannot be created, new() fails instead of returning a manager.
C22_Original == (mode = "single" /\ pc # "dropped") => hwnd # "null"

\* new() has returned a manager although CreateWindowExA failed, and the
\* manager is in use
C22_Witness ==
    /\ mode = "single"
    /\ hwnd = "null"
    /\ DOMAIN handlers # {}
    /\ pc = "event_loop"

\* a step in which the single-threaded manager is torn down
SingleDrop == mode = "single" /\ pc # "dropped" /\ pc' = "dropped"

\* C23: the teardown of a single-threaded manager attempts unregister_all
\* (every hot key when none fails, up to and including the first that fails
\* otherwise) and destroys the window in the same step, also when
\* unregister_all stopped at a failure; the window changes in no other step,
\* so it is destroyed neither before the teardown nor a second time.
C23_Teardown ==
    /\ [][SingleDrop =>
            /\ last'.op = "drop"
            /\ hwnd = "window" => hwnd' = "destroyed"
            /\ DOMAIN handlers # {} => last'.attempted # << >>
            /\ Range(last'.attempted) \subseteq DOMAIN handlers
            /\ last'.res = "Ok" =>
                  /\ Range(last'.attempted) = DOMAIN handlers
                  /\ DOMAIN handlers' = {}
            /\ last'.res # "Ok" =>
                  /\ last'.res = "UnregistrationFailed"
                  /\ DOMAIN handlers' =
                        (DOMAIN handlers \ Range(last'.attempted))
                        \cup {last'.attempted[Len(last'.attempted)]}]_vars
    /\ [][(mode = "single" /\ hwnd' # hwnd) =>
            SingleDrop /\ hwnd = "window" /\ hwnd' = "destroyed"]_vars
    /\ [][(mode = "single" /\ pc = "dropped") => hwnd' = hwnd /\ pc' = pc]_vars

\* a manager with two hot keys was torn down, unregister_all stopped at the
\* first hot key, and the window is destroyed
C23_Witness ==
    /\ mode = "single"
    /\ pc = "dropped"
    /\ hwnd = "destroyed"
    /\ last.op = "drop"
    /\ last.res = "UnregistrationFailed"
    /\ Len(last.attempted) = 1
    /\ Cardinality(DOMAIN handlers) = 2

\* C24: interrupt() on the handle of a manager that has been dropped changes
\* nothing: neither the message queue of the manager's thread nor the
\* registry, the platform's table or the window, however often it is called.
C24_InterruptAfterDrop ==
    [][(mode = "single" /\ pc = "dropped" /\ last'.op = "interrupt") =>
          UNCHANGED << hwnd, id, handlers, no_repeat, hotkeys, queue, pc,
                       handle_out, issued, unregistered, after_ua >>]_vars

\* interrupt() was called on the handle of a dropped manager whose window
\* is destroyed, with a message still in the queue of its thread
C24_Witness ==
    /\ mode = "single"
    /\ handle_out
    /\ hwnd = "destroyed"
    /\ last.op = "interrupt"
    /\ last.res = "dropped"
    /\ queue # << >>

\* a step in which a call of handle_hotkey or event_loop returns because it
\* took a WM_NULL from the queue
EndsOnInterrupt ==
    /\ mode = "single"
    /\ pc \in {"handle_hotkey", "event_loop"}
    /\ pc' = "idle"
    /\ last'.op = "poll"
    /\ last'.args[1].message = "WM_NULL"

\* C25: interrupt() is idempotent: however often it was called, once a call
\* of handle_hotkey or event_loop has ended because of it, nothing of it is
\* left in the queue that would end a later call as well.
C25_Original == [][EndsOnInterrupt => ~ WakeupPending']_vars

\* interrupt() was called twice: the call in progress has ended on the
\* first wakeup and the second one is still queued
C25_Witness ==
    /\ mode = "single"
    /\ hwnd = "window"
    /\ pc = "idle"
    /\ last.op = "poll"
    /\ last.args[1].message = "WM_NULL"
    /\ WakeupPending

(***************************************************************************)
(* Properties of the id counter at its width.                              *)
(***************************************************************************)
\* C26: no id is returned twice by register on one manager, also when the
\* u16 counter reaches its end: the ids of the accepted register calls are
\* pairwise different.
C26_Original ==
    \A a, b \in 1..Len(issued) :
        (a # b /\ issued[a].ok /\ issued[b].ok) => issued[a].id # issued[b].id

\* the counter has wrapped and register has returned id 0 a second time
\* while the hot key that got id 0 first was still registered
C26_Witness ==
    /\ mode = "single"
    /\ Len(issued) >= 2
    /\ issued[1] = [id |-> 0, ok |-> TRUE]
    /\ 0 \notin unregistered
    /\ last.op = "register"
    /\ last.id = 0
    /\ last.res = "Ok"
    /\ id = 1

(***************************************************************************)
(* Properties of the no-repeat flag.                                       *)
(***************************************************************************)
\* the OR of the codes of the given modifiers, with the no-repeat bit when
\* the flag is set
GivenBits(modifiers_key, flag) ==
    BitOr(Combine(modifiers_key), IF flag THEN ToModCode("NoRepeat") ELSE 0)

\* a step in which a register call is accepted
Accepted == Len(issued') = Len(issued) + 1 /\ last'.op = "register" /\ last'.res = "Ok"

\* C27: the modifier bits of an accepted register call are the OR of the
\* given modifiers' codes, with the no-repeat bit exactly when the flag was
\* set at the time of the call or NoRepeat was among the given modifiers;
\* this holds for the single-threaded manager and for the proxy alike, and
\* a change of the flag leaves the registry, the platform's table and the
\* id counter as they were.
C27_NoRepeatBits ==
    /\ [][(mode = "single" /\ Accepted) =>
            hotkeys'[last'.id].modifiers = GivenBits(last'.args[2], no_repeat)]_vars
    /\ [][(mode = "proxy" /\ Accepted) =>
            LET call == ref.calls[Head(requests).from][1]
            IN  /\ call.op = "register"
                /\ hotkeys'[last'.id].modifiers = GivenBits(call.args[2], call.no_repeat)
                /\ ref'.hotkeys[last'.id].modifiers = hotkeys'[last'.id].modifiers]_vars
    /\ [][(no_repeat' # no_repeat \/ ts_no_repeat' # ts_no_repeat
           \/ (mode = "single" /\ last'.op = "set_no_repeat")) =>
            UNCHANGED << id, handlers, hotkeys >>]_vars

\* a hot key registered under the default flag carries the no-repeat bit,
\* and the same manager has registered another one without it after
\* set_no_repeat(false)
C27_Witness ==
    /\ mode = "single"
    /\ ~ no_repeat
    /\ DOMAIN hotkeys = {0, 1}
    /\ hotkeys[0].modifiers = 16384 + 3
    /\ hotkeys[1].modifiers = 0
    /\ last.op = "register"
    /\ last.id = 1

(***************************************************************************)
(* Properties of WinHotKeyManager.                                         *)
(***************************************************************************)
\* C28: the table HOTKEYS has an entry for an id exactly when a hot key
\* with that id is registered with the platform, whenever no register or
\* unregister call is under way.
C28_Original ==
    (mode = "win" /\ winthreads.call = None) => DOMAIN HOTKEYS = DOMAIN hotkeys

\* the hot key registered under the name "a" has fired and its event
\* carries the name "b" of a register call that returned an error
C28_Witness ==
    /\ mode = "win"
    /\ winthreads.call = None
    /\ last.res = "Pressed"
    /\ last.op = "event"
    /\ last.ret = Some("b")
    /\ last.id \in DOMAIN hotkeys
    /\ Len(issued) = 2
    /\ issued[1] = [id |-> last.id, ok |-> TRUE, name |-> Some("a")]
    /\ issued[2] = [id |-> last.id, ok |-> FALSE, name |-> Some("b")]

(***************************************************************************)
(* Properties of the HotKey encoder and parser.                            *)
(***************************************************************************)
\* C29: parsing the string that into_string produced for a valid
\* descriptor succeeds and gives the modifiers and the key of the descriptor.
C29_Original ==
    (mode = "hotkey" /\ last.op = "parse_hotkey" /\ Len(last.args) = 2)
    => /\ last.res = "Ok"
       /\ last.ret.hotkey.mods = last.args[2].mods
       /\ last.ret.hotkey.key = last.args[2].key

\* the string "shift+alt+KeyQ" that into_string produced for {shift, alt}
\* and KeyQ was parsed, and the parser reported an unsupported key
C29_Witness ==
    /\ mode = "hotkey"
    /\ last.op = "parse_hotkey"
    /\ last.args = << << "s", "h", "i", "f", "t", "+", "a", "l", "t", "+", "K", "e", "y", "Q" >>,
                      NewHotKey({"SHIFT", "ALT"}, "KeyQ", None) >>
    /\ last.res = "UnsupportedKey"

\* the result of parsing a given string, where it was parsed
Parsed(str) == mode = "hotkey" /\ last.op = "parse_hotkey" /\ last.args = << str >>

\* a successful parse with the given modifiers and key
ParsedAs(mods, key) ==
    last.res = "Ok" /\ last.ret.hotkey.mods = mods /\ last.ret.hotkey.key = key

\* C30: a string without a name and without the delimiters is parsed as the
\* chord: "F8" gives no modifiers and F8, "ctrl+r" gives {control} and R,
\* "ctrl+alt+b" gives {control, alt} and B, and "shift+alt+KeyQ" parses.
C30_Original ==
    /\ Parsed(<< "F", "8" >>) => ParsedAs({}, "F8")
    /\ Parsed(<< "c", "t", "r", "l", "+", "r" >>) => ParsedAs({"CONTROL"}, "KeyR")
    /\ Parsed(<< "c", "t", "r", "l", "+", "a", "l", "t", "+", "b" >>) => ParsedAs({"CONTROL", "ALT"}, "KeyB")
    /\ Parsed(<< "s", "h", "i", "f", "t", "+", "a", "l", "t", "+", "K", "e", "y", "Q" >>) => last.res = "Ok"

\* "ctrl+r" was parsed and the parser reported an unsupported key; its text
\* is the empty chord
C30_Witness ==
    /\ Parsed(<< "c", "t", "r", "l", "+", "r" >>)
    /\ last.id = None
    /\ last.res = "UnsupportedKey"
    /\ last.ret.text = << >>

(***************************************************************************)
(* Properties of the GlobalHotkey parser.                                  *)
(***************************************************************************)
\* str.try_into() completed for the string str
Converted(str) == mode = "globalkey" /\ last.op = "try_into" /\ last.args = << str >>

\* the tokens of str that name a key which is no modifier key
MainKeyTokens(str) ==
    {n \in 1..Len(Split(str, "+")) :
        /\ VirtualKeyTryFrom(Trim(Split(str, "+")[n])).ok
        /\ TryIntoModifiersKey(VirtualKeyTryFrom(Trim(Split(str, "+")[n])).key) = None}

\* C31: a string with two or more tokens that name a key which is no
\* modifier fails to parse into a GlobalHotkey, with InvalidFormat.
C31_Original ==
    \A str \in GlobalInputs :
        Converted(str) /\ Cardinality(MainKeyTokens(str)) >= 2
            => last.res = "InvalidFormat"

\* "a+F8" was parsed: the result is Ok, with the key A and F8 as an extra key
C31_Witness ==
    /\ Converted(<< "a", "+", "F", "8" >>)
    /\ last.res = "Ok"
    /\ last.ret.hotkey.key = CustomKeyCode(65)
    /\ last.ret.hotkey.extras = Some(<< Vk("F8") >>)

(***************************************************************************)
(* Properties of the HotKey parser: the order of the tokens, blank tokens, *)
(* the id, the primary key and the names of the modifiers.                 *)
(***************************************************************************)
\* the names parse_hotkey takes for a modifier, in upper case
ModifierNames ==
    { << "O", "P", "T", "I", "O", "N" >>, << "A", "L", "T" >>,
      << "C", "O", "N", "T", "R", "O", "L" >>, << "C", "T", "R", "L" >>,
      << "C", "O", "M", "M", "A", "N", "D" >>, << "C", "M", "D" >>,
      << "S", "U", "P", "E", "R" >>, << "S", "H", "I", "F", "T" >> }

\* the token names a modifier; it names a key
NamesModifier(token) == ToUppercase(Trim(token)) \in ModifierNames
NamesKey(token) == ~ NamesModifier(token) /\ ParseKey(Trim(token)).ok

\* every token names a modifier or a key, and a key is followed by a token
KeyFollowed(tokens) ==
    /\ \A n \in 1..Len(tokens) : NamesModifier(tokens[n]) \/ NamesKey(tokens[n])
    /\ \E n \in 1..(Len(tokens) - 1) : NamesKey(tokens[n])

\* the last token names a key and the tokens before it name modifiers
KeyLast(tokens) ==
    /\ NamesKey(tokens[Len(tokens)])
    /\ \A n \in 1..(Len(tokens) - 1) : NamesModifier(tokens[n])

\* the order rule for the chord, given as the string str
OrderRule(chord, str) ==
    Parsed(str) =>
        /\ KeyFollowed(Split(chord, "+")) => last.res = "InvalidFormat"
        /\ KeyLast(Split(chord, "+")) => last.res = "Ok"

\* C32: a chord in which a token follows the primary key ("shift+KeyQ+alt",
\* or a second key) fails to parse with InvalidFormat, and a chord of
\* modifiers with the key last parses; the chord is the whole string or
\* the text inside the delimiters.
C32_Original ==
    \A chord \in HotKeyChords :
        OrderRule(chord, chord) /\ OrderRule(chord, Delimited(chord))

\* the order rule holds for the chords inside the delimiters; a chord of
\* one token is given to parse_key as it is, so white space around it is
\* part of the key name
OrderRuleDelimited ==
    \A chord \in HotKeyChords :
        \/ OrderRule(chord, Delimited(chord))
        \/ Len(Split(chord, "+")) = 1 /\ Trim(chord) # chord

\* "shift+KeyQ+alt" was parsed: the error is UnsupportedKey, of the empty
\* text
C32_Witness ==
    /\ Parsed(<< "s", "h", "i", "f", "t", "+", "K", "e", "y", "Q", "+", "a", "l", "t" >>)
    /\ last.res = "UnsupportedKey"
    /\ last.ret.text = << >>

\* the chord has a token that is empty after trimming
BlankToken(chord) ==
    \E n \in 1..Len(Split(chord, "+")) : Trim(Split(chord, "+")[n]) = << >>

\* C33: a string with a token that is empty after trimming ("ctrl++b")
\* fails to parse with EmptyToken, whatever its other tokens are, in the
\* GlobalHotkey parser and in the HotKey parser.
C33_Original ==
    /\ \A str \in GlobalInputs :
          Converted(str) /\ BlankToken(str) => last.res = "EmptyToken"
    /\ \A chord \in HotKeyChords : \A str \in {chord, Delimited(chord)} :
          Parsed(str) /\ BlankToken(chord) => last.res = "EmptyToken"

\* blank tokens inside the delimiters: EmptyToken is the result when the
\* chord has two or more tokens and every token before the first blank one
\* names a modifier, or a key that is the first key
BlankTokenDelimited ==
    \A chord \in HotKeyChords :
        LET tokens == Split(chord, "+")
            first == CHOOSE n \in 1..Len(tokens) :
                        Trim(tokens[n]) = << >> /\ \A m \in 1..(n - 1) : Trim(tokens[m]) # << >>
        IN  /\ Parsed(Delimited(chord))
            /\ BlankToken(chord)
            /\ Len(tokens) >= 2
            /\ \A m \in 1..(first - 1) : NamesModifier(tokens[m]) \/ NamesKey(tokens[m])
            /\ Cardinality({m \in 1..(first - 2) : NamesKey(tokens[m])}) = 0
            => last.res = "EmptyToken"

\* "ctrl++b" was given to the GlobalHotkey parser: the error is
\* UnsupportedKey, for the name CTRL
C33_Witness ==
    /\ Converted(<< "c", "t", "r", "l", "+", "+", "b" >>)
    /\ last.res = "UnsupportedKey"
    /\ last.ret.text = InvalidKeyToString(<< "C", "T", "R", "L" >>)

\* "ctrl++b" was given to the HotKey parser: the error is UnsupportedKey,
\* of the empty text
BlankTokenUndelimited ==
    /\ Parsed(<< "c", "t", "r", "l", "+", "+", "b" >>)
    /\ last.res = "UnsupportedKey"
    /\ last.ret.text = << >>

\* C34: the id of the descriptor that HotKey::new returns is
\* (modifier bits << 16) | key code: its upper half is the bits of the
\* descriptor's modifiers and its lower half the number of its key; a
\* descriptor made from any other arguments has the same id exactly when
\* it has the same modifiers and key, whatever the names are.
C34_IdPacksPair ==
    (mode = "hotkey" /\ last.op = "new")
    => /\ last.ret.id \div U16 = Bits(last.ret.mods)
       /\ last.ret.id % U16 = KeyAsU32(last.ret.key)
       /\ \A a \in NewArguments :
             (NewHotKey(a[1], a[2], a[3]).id = last.ret.id)
             <=> /\ NewHotKey(a[1], a[2], a[3]).mods = last.ret.mods
                 /\ NewHotKey(a[1], a[2], a[3]).key = last.ret.key

\* HotKey::new was called with META, SHIFT, the key Q and a name: the
\* descriptor holds SUPER and SHIFT and its id is their bits, shifted, and
\* the number of the key
C34_Witness ==
    /\ mode = "hotkey"
    /\ last.op = "new"
    /\ last.args = << {"META", "SHIFT"}, "KeyQ", Some(<< "s", "a", "v", "e" >>) >>
    /\ last.ret.mods = {"SUPER", "SHIFT"}
    /\ last.ret.id = (ModifierBit("SUPER") + ModifierBit("SHIFT")) * U16 + KeyAsU32("KeyQ")
    /\ last.ret.id = NewHotKey({"SHIFT", "SUPER"}, "KeyQ", None).id

\* the keys of keyboard_types::Code that are modifier keys
ModifierCodes ==
    {"ShiftLeft", "ShiftRight", "ControlLeft", "ControlRight", "AltLeft",
     "AltRight", "MetaLeft", "MetaRight", "SuperLeft", "SuperRight"}

\* the modifier that a token of the HotKey parser names
NamedModifier(token) ==
    LET u == ToUppercase(Trim(token))
    IN  IF u \in {<< "O", "P", "T", "I", "O", "N" >>, << "A", "L", "T" >>} THEN "ALT"
        ELSE IF u \in {<< "C", "O", "N", "T", "R", "O", "L" >>, << "C", "T", "R", "L" >>}
        THEN "CONTROL"
        ELSE IF u = << "S", "H", "I", "F", "T" >> THEN "SHIFT"
        ELSE "SUPER"

\* the modifier keys that the tokens of str name before its first main key,
\* as a set
GlobalModifierSet(str) ==
    LET tokens == Split(str, "+")
        before == {n \in 1..Len(tokens) : \A m \in MainKeyTokens(str) : n < m}
    IN  {TryIntoModifiersKey(VirtualKeyTryFrom(Trim(tokens[n])).key)[1] : n \in before}

\* the sum of the codes of a set of modifiers, which have one bit each
RECURSIVE SumModCodes(_)
SumModCodes(S) ==
    IF S = {} THEN 0
    ELSE LET m == CHOOSE x \in S : TRUE IN ToModCode(m) + SumModCodes(S \ {m})

\* the modifiers of a parsed descriptor are those of the set of modifier
\* tokens: their order and their repetitions do not show in what is
\* registered
ModifiersAsSet ==
    /\ \A str \in GlobalInputs :
          Converted(str) /\ last.res = "Ok" /\ Len(Split(str, "+")) >= 2
          => Combine(last.ret.hotkey.modifiers) = SumModCodes(GlobalModifierSet(str))
    /\ \A chord \in HotKeyChords :
          Parsed(Delimited(chord)) /\ last.res = "Ok" /\ Len(Split(chord, "+")) >= 2
          => last.ret.hotkey.mods =
                {NamedModifier(Split(chord, "+")[n]) : n \in 1..(Len(Split(chord, "+")) - 1)}

\* C35: the primary key of a descriptor that a parser returned is no
\* modifier key (Shift, Control, Menu, Win, left or right), and its
\* modifiers are those of the set of its modifier tokens.
C35_Original ==
    /\ mode = "globalkey" /\ last.op = "try_into" /\ last.res = "Ok"
       => TryIntoModifiersKey(last.ret.hotkey.key) = None
    /\ mode = "hotkey" /\ last.op = "parse_hotkey" /\ last.res = "Ok"
       => last.ret.hotkey.key \notin ModifierCodes
    /\ ModifiersAsSet

\* "shift" was given to the GlobalHotkey parser: the result is Ok, a hot
\* key with the primary key Shift and no modifiers
C35_Witness ==
    /\ Converted(<< "s", "h", "i", "f", "t" >>)
    /\ last.res = "Ok"
    /\ last.ret.hotkey.key = Vk("Shift")
    /\ last.ret.hotkey.modifiers = None
    /\ TryIntoModifiersKey(last.ret.hotkey.key) = Some("Shift")

\* the names of the modifiers in the grammar of the descriptors, among the
\* tokens given to the HotKey parser, and the modifier of each
AliasTokens ==
    {t \in HotKeyTokenChoices :
        ToUppercase(t) \in ModifierNames \cup {<< "W", "I", "N" >>,
                                               << "W", "I", "N", "D", "O", "W", "S" >>}}

\* C36: each name of a modifier (ALT, OPTION, CTRL, CONTROL, SHIFT, WIN,
\* WINDOWS, SUPER, CMD, COMMAND), in any letter case, is taken by the
\* descriptor parser as a modifier token: the chord of the name and a key
\* parses, to the modifier Alt, Control, Shift or Super of the name.
C36_Original ==
    \A t \in AliasTokens :
        Parsed(Delimited(t \o << "+", "K", "e", "y", "Q" >>))
        => /\ last.res = "Ok"
           /\ last.ret.hotkey.mods = {NamedModifier(t)}
           /\ last.ret.hotkey.key = "KeyQ"

\* "<win+KeyQ>" was parsed: the error is UnsupportedKey, for the token win
C36_Witness ==
    /\ Parsed(<< "<", "w", "i", "n", "+", "K", "e", "y", "Q", ">" >>)
    /\ last.res = "UnsupportedKey"
    /\ last.ret.text = << "w", "i", "n" >>

\* the names the HotKey parser does take: all but WIN and WINDOWS
AliasesOfParseHotkey ==
    \A t \in AliasTokens :
        /\ Parsed(Delimited(t \o << "+", "K", "e", "y", "Q" >>))
        /\ ToUppercase(t) \in ModifierNames
        => /\ last.res = "Ok"
           /\ last.ret.hotkey.mods = {NamedModifier(t)}

\* the names the two lookups of the GlobalHotkey side take:
\* ModifiersKey::from_keyname knows ALT, CTRL, WIN and SHIFT and neither
\* OPTION nor CMD; the parser, through the key names, knows SHIFT and
\* CONTROL and none of CTRL, ALT, OPTION, WIN, CMD
AliasesOfGlobalHotkey ==
    /\ mode = "globalkey" /\ last.op = "from_keyname"
       => (last.res = "Ok") =
             (ToAsciiUppercase(last.args[1]) \in
                 {<< "S", "H", "I", "F", "T" >>, << "C", "O", "N", "T", "R", "O", "L" >>,
                  << "C", "T", "R", "L" >>, << "A", "L", "T" >>, << "W", "I", "N" >>})
    /\ \A t \in {<< "c", "t", "r", "l" >>, << "a", "l", "t" >>, << "w", "i", "n" >>,
                  << "O", "p", "t", "i", "o", "n" >>, << "c", "m", "d" >>} :
          Converted(t \o << "+", "a" >>) => last.res = "UnsupportedKey"
    /\ \A t \in {<< "s", "h", "i", "f", "t" >>, << "C", "O", "N", "T", "R", "O", "L" >>} :
          Converted(t \o << "+", "a" >>)
          => last.res = "Ok" /\ Len(last.ret.hotkey.modifiers[1]) = 1

(***************************************************************************)
(* Properties of the facade: start after stop, callbacks while Idle,       *)
(* concurrent starts, the registrations of the latest start.               *)
(***************************************************************************)
\* C37: a call of start() returns: a user that has entered start() comes
\* back out of it, also when the start follows a stop().
C37_Original ==
    \A t \in Users : (fthreads[t].pc = "start_lock") ~> (fthreads[t].pc = "idle")

\* a start() that follows a stop() has set the flag and waits for the
\* manager mutex, which the event-loop thread of the start before holds
\* inside event_loop()
C37_Witness ==
    /\ mode = "proxy"
    /\ facade.cleans > 0
    /\ facade.listening
    /\ \E t \in Users, l \in LoopThreads :
          /\ fthreads[t].pc = "start_lock"
          /\ fthreads[l].pc = "loop_wait"
          /\ facade.lock.manager = Some(l)
          /\ pc = "event_loop"
          /\ queue = << >>

\* stop() has returned true and no start() has been called since: the flag
\* is clear, a cleanup thread exists and no user is inside a call
StoppedIdle ==
    /\ ~ facade.listening
    /\ facade.cleans > 0
    /\ \A t \in Users : fthreads[t].pc = "idle"

\* C38: while the facade is Idle after a stop() that returned true, and
\* until start() is called again, no callback of a hot key is invoked.
C38_Original == [][ StoppedIdle => last'.called = None ]_vars

\* the facade is Idle after stop() and the worker, still inside the event
\* loop of the start before, has just invoked the callback of a hot key
\* that is still registered
C38_Witness ==
    /\ mode = "proxy"
    /\ StoppedIdle
    /\ last.op = "poll"
    /\ last.called = Some("cb1")
    /\ pc = "event_loop"
    /\ last.id \in DOMAIN hotkeys
    /\ \E k \in CleanThreads : fthreads[k].pc = "clean_lock"

\* ---- Properties of the facade: start() from two threads ----

\* the event-loop threads that have been spawned and have not ended
LiveLoops == {l \in LoopThreads : fthreads[l].pc \notin {"unborn", "done"}}

\* C39: when several threads call start() at once on an Idle facade,
\* exactly one of them performs the start: the named hotkeys are submitted
\* for registration once, and at most one event-loop thread exists. Here
\* the facade is never stopped and no name is removed, so one start
\* submits at most as many registrations as the table has names.
C39_Original ==
    mode = "proxy" =>
        /\ Cardinality(LiveLoops) <= 1
        /\ Len(issued) <= Cardinality(DOMAIN facade.table)

\* both threads passed listening.load() before either stored the flag;
\* each submitted the one name of the table, the second registration was
\* refused as a duplicate, and two event-loop threads exist
C39_Witness ==
    /\ mode = "proxy"
    /\ DOMAIN facade.table = {"n1"}
    /\ facade.cleans = 0
    /\ facade.loops = 2
    /\ Cardinality(LiveLoops) = 2
    /\ Len(issued) = 2
    /\ issued[1].ok /\ ~ issued[2].ok
    /\ Len(facade.key_ids) = 1
    /\ \A t \in Racers : fthreads[t].pc = "idle"

\* ---- Properties of the facade: the cleanup of stop() and a later start() ----

\* the facade is Listening and no start(), stop() or cleanup is in progress
Settled ==
    /\ facade.listening
    /\ \A t \in Users : fthreads[t].pc = "idle"
    /\ \A k \in CleanThreads : fthreads[k].pc \in {"unborn", "done"}

\* the ids of the registrations that succeeded in the latest start() of t
LatestOk(t) ==
    {fthreads[t].sent[n].result[2] :
        n \in {m \in 1..Len(fthreads[t].sent) : fthreads[t].sent[m].result[1] = "Ok"}}

\* C40: whenever the facade is Listening and no start(), stop() or cleanup
\* is in progress, every hot key whose registration succeeded in the latest
\* start() is still registered with the platform and its id is in the id
\* list of the facade: the cleanup of an earlier stop() never unregisters
\* hot keys registered by a later start().
C40_Original ==
    (mode = "proxy" /\ Settled) =>
        \A t \in Users : \A i \in LatestOk(t) :
            /\ i \in DOMAIN hotkeys
            /\ \E n \in 1..Len(facade.key_ids) : facade.key_ids[n] = i

\* the second start() registered the hot key of n1 and returned while the
\* cleanup of the stop() before it had not yet taken the manager mutex;
\* the cleanup then unregistered the hot key and cleared the id list, and
\* the facade is Listening with nothing registered
C40_Witness ==
    /\ mode = "proxy"
    /\ Settled
    /\ facade.loops = 2
    /\ facade.cleans = 1
    /\ fthreads[<< "clean", 1 >>].pc = "done"
    /\ \E t \in Users : LatestOk(t) # {}
    /\ hotkeys = EmptyMap
    /\ facade.key_ids = << >>
    /\ last.op = "cleanup"

====
